---- MODULE Spec2Model ----
(***************************************************************************)
(* A model of the API gateway of joegr/ReTurni: the sliding-window rate    *)
(* limiter, the token / revocation / session subsystem and the request     *)
(* pipeline (services/shared/auth.py, services/api-gateway/main.py).       *)
(*                                                                         *)
(* The Redis store is modelled by what its commands do: a sorted set is a  *)
(* set of (member, score) pairs with unique members, a key written with    *)
(* SETEX or EXPIRE disappears once its time to live has run out.  Time is  *)
(* the integer second int(datetime.utcnow().timestamp()).                  *)
(***************************************************************************)
EXTENDS Integers, Sequences, FiniteSets, TLC

\* --------------------------------------------------------------- bounds
MaxLimit == 2
MaxWindow == 2
MaxTime == 3
MaxCalls == 4
NumProcs == 3
MaxAdvances == 2

\* ------------------------------------------------------------ constants
Keys == {"ip1:ua", "ip2:ua"}
Procs == 1..NumProcs
NoExpiry == -1
Absent == "absent"          \* payload.get(...) is None
NoTime == -1                \* payload.get("exp") is None
NoSession == [none |-> "session"]
NoToken == [none |-> "token"]
NoCall == [none |-> "call"]
NoCred == [none |-> "credentials"]
NoUser == [none |-> "user"]
NoRequest == [none |-> "request"]
NoTournament == [none |-> "tournament"]
TournamentIds == {"t1", "t2"}
NeverCreated == [created |-> FALSE, deleted |-> FALSE, last |-> NoTime]
SidSeq == <<"s1", "s2">>
Sids == {SidSeq[i] : i \in 1..Len(SidSeq)}

VARIABLES
  now,        \* the clock, in seconds
  limit,      \* the limit argument of the rate limiter calls
  window,     \* the window argument of the rate limiter calls
  rl,         \* rl[k]: the sorted set rate_limit:{k}, a set of [member, score]
  rlExpire,   \* rlExpire[k]: the second at which the key expires, or NoExpiry
  hist,       \* the rate limiter calls made so far, in order
  pc,         \* pc[p]: where caller p stands inside check_rate_limit
  loc,        \* loc[p]: the locals of caller p (key, current_time, current_requests, result)
  past,       \* the clock readings so far: the times a token can have been issued at
  blacklist,  \* the revocation records blacklist:{jti}, a set of [key, expireAt]
  sessions,   \* sessions[s]: the record session:{s}, or NoSession
  sidsUsed,   \* the session ids uuid4 has handed out
  revoked,    \* a token blacklist_token wrote a record for or a logout was answered 200 for, or NoToken
  lastAuth,   \* the last call of get_current_user / get_optional_user, or NoCall
  slog,       \* slog[s]: whether session s was created, was deleted, and its last access
  req,        \* the request the gateway is handling, or NoRequest
  stages,     \* the pipeline stages the request went through, in order
  rateCall,   \* what the rate limiter answered for the request, or NoCall
  calls,      \* the requests sent downstream for the request
  resp,       \* the responses given to the client for the request
  metrics,    \* the metric samples recorded for the request
  served,     \* the number of requests received so far
  down,       \* what the downstream call of the request ended with
  escaped,    \* the exceptions that left request_middleware for the request
  tournaments \* tournaments[i]: the row of tournament i in the tournament API's database, or NoTournament

vars == <<now, limit, window, rl, rlExpire, hist, pc, loc,
          past, blacklist, sessions, sidsUsed, revoked, lastAuth, slog,
          req, stages, rateCall, calls, resp, metrics, served, down, escaped,
          tournaments>>

rlVars == <<rl, rlExpire>>
procVars == <<pc, loc>>
rateVars == <<limit, window, rl, rlExpire, hist, pc, loc>>
authVars == <<past, blacklist, sessions, sidsUsed, revoked, lastAuth, slog>>
pipeVars == <<req, stages, rateCall, calls, resp, metrics, served, down, escaped,
             tournaments>>

\* ------------------------------------------------------- the Redis store
\* str(current_time): the member of a sorted set entry.  Decimal rendering is
\* injective on the integers, which is all the sorted set observes of it.
str(n) == <<"str", n>>

\* ZREMRANGEBYSCORE key lo hi: drops the entries with lo <= score <= hi.
zremrangebyscore(zs, lo, hi) == {e \in zs : ~(lo <= e.score /\ e.score <= hi)}

\* ZCARD key
zcard(zs) == Cardinality(zs)

\* ZADD key {member: score}: a member is held once; adding it again only
\* updates its score.
zadd(zs, member, score) ==
  {e \in zs : e.member # member} \cup {[member |-> member, score |-> score]}

\* A key is gone once the clock is past its expiry time (Redis compares
\* now > when); at the expiry instant itself a command still finds it.
Expired(expireAt, t) == expireAt # NoExpiry /\ expireAt < t

\* The sorted set as a command finds it at time t.
Live(zs, expireAt, t) == IF Expired(expireAt, t) THEN {} ELSE zs

\* A sorted set that became empty is deleted, and its time to live with it.
Ttl(zs, expireAt) == IF zs = {} THEN NoExpiry ELSE expireAt

\* ------------------------------------------------ RateLimiter (sequential)
\* check_rate_limit that records the rejected calls too.
check_rate_limit_records_rejected(zs, expireAt, lim, win, t) ==
  LET window_start == t - win
      cleaned == zremrangebyscore(Live(zs, expireAt, t), 0, window_start)
      current_requests == zcard(cleaned)
  IN  [zs |-> zadd(cleaned, str(t), t), expireAt |-> t + win,
       res |-> ~(current_requests >= lim)]

\* check_rate_limit that takes the window for minutes where the store works
\* in seconds.
check_rate_limit_minutes(zs, expireAt, lim, win, t) ==
  LET window_start == t - win * 60
      cleaned == zremrangebyscore(Live(zs, expireAt, t), 0, window_start)
      current_requests == zcard(cleaned)
  IN  IF current_requests >= lim
        THEN [zs |-> cleaned, expireAt |-> Ttl(cleaned, expireAt), res |-> FALSE]
        ELSE [zs |-> zadd(cleaned, str(t), t), expireAt |-> t + win * 60, res |-> TRUE]

\* check_rate_limit that rejects only above the limit (> instead of >=).
check_rate_limit_above(zs, expireAt, lim, win, t) ==
  LET window_start == t - win
      cleaned == zremrangebyscore(Live(zs, expireAt, t), 0, window_start)
      current_requests == zcard(cleaned)
  IN  IF current_requests > lim
        THEN [zs |-> cleaned, expireAt |-> Ttl(cleaned, expireAt), res |-> FALSE]
        ELSE [zs |-> zadd(cleaned, str(t), t), expireAt |-> t + win, res |-> TRUE]

\* check_rate_limit(key, limit, window) run to completion at time t:
\* the sorted set and expiry it leaves, and its result.
check_rate_limit(zs, expireAt, lim, win, t) ==
  LET window_start == t - win
      cleaned == zremrangebyscore(Live(zs, expireAt, t), 0, window_start)
      current_requests == zcard(cleaned)
  IN  IF current_requests >= lim
        THEN [zs |-> cleaned, expireAt |-> Ttl(cleaned, expireAt), res |-> FALSE]
        ELSE [zs |-> zadd(cleaned, str(t), t), expireAt |-> t + win, res |-> TRUE]

\* get_rate_limit_info(key, limit, window) at time t.
get_rate_limit_info(zs, expireAt, lim, win, t) ==
  LET window_start == t - win
      cleaned == zremrangebyscore(Live(zs, expireAt, t), 0, window_start)
      current_requests == zcard(cleaned)
  IN  [zs |-> cleaned, expireAt |-> Ttl(cleaned, expireAt),
       info |-> [limit |-> lim,
                 remaining |-> IF lim - current_requests > 0
                                 THEN lim - current_requests ELSE 0,
                 reset_time |-> t + win,
                 window |-> win]]

\* The token and session stores before any call, and the gateway before any
\* request.
AuthIdle ==
  /\ past = {0}
  /\ blacklist = {}
  /\ sessions = [s \in Sids |-> NoSession]
  /\ sidsUsed = {}
  /\ revoked = NoToken
  /\ lastAuth = NoCall
  /\ slog = [s \in Sids |-> NeverCreated]
  /\ req = NoRequest
  /\ stages = <<>>
  /\ rateCall = NoCall
  /\ calls = <<>>
  /\ resp = <<>>
  /\ metrics = <<>>
  /\ served = 0
  /\ down = <<>>
  /\ escaped = <<>>
  /\ tournaments = [i \in TournamentIds |-> NoTournament]

NoLoc == [key |-> "ip1:ua", current_time |-> 0, current_requests |-> 0, result |-> FALSE]

InitRL ==
  /\ now = 0
  /\ limit \in 1..MaxLimit
  /\ window \in 1..MaxWindow
  /\ rl = [k \in Keys |-> {}]
  /\ rlExpire = [k \in Keys |-> NoExpiry]
  /\ hist = <<>>
  /\ pc = [p \in Procs |-> "idle"]
  /\ loc = [p \in Procs |-> NoLoc]
  /\ AuthIdle

\* One second passes.  Keys whose time to live ran out are dropped.
Tick ==
  /\ now < MaxTime
  /\ now' = now + 1
  /\ rl' = [k \in Keys |-> Live(rl[k], rlExpire[k], now + 1)]
  /\ rlExpire' = [k \in Keys |-> IF Expired(rlExpire[k], now + 1) THEN NoExpiry
                                 ELSE rlExpire[k]]
  /\ UNCHANGED <<limit, window, hist, procVars, authVars, pipeVars>>

CheckRateLimit(k) ==
  /\ Len(hist) < MaxCalls
  /\ LET r == check_rate_limit(rl[k], rlExpire[k], limit, window, now)
     IN  /\ rl' = [rl EXCEPT ![k] = r.zs]
         /\ rlExpire' = [rlExpire EXCEPT ![k] = r.expireAt]
         /\ hist' = Append(hist, [op |-> "check", key |-> k, t |-> now,
                                  res |-> r.res, remaining |-> 0,
                                  before |-> rl[k], after |-> r.zs])
  /\ UNCHANGED <<now, limit, window, procVars, authVars, pipeVars>>

GetRateLimitInfo(k) ==
  /\ Len(hist) < MaxCalls
  /\ LET r == get_rate_limit_info(rl[k], rlExpire[k], limit, window, now)
     IN  /\ rl' = [rl EXCEPT ![k] = r.zs]
         /\ rlExpire' = [rlExpire EXCEPT ![k] = r.expireAt]
         /\ hist' = Append(hist, [op |-> "info", key |-> k, t |-> now,
                                  res |-> TRUE, remaining |-> r.info.remaining,
                                  before |-> rl[k], after |-> r.zs])
  /\ UNCHANGED <<now, limit, window, procVars, authVars, pipeVars>>

NextRL ==
  \/ Tick
  \/ \E k \in Keys : CheckRateLimit(k)
  \/ \E k \in Keys : GetRateLimitInfo(k)

\* Sequential callers of the rate limiter.
SpecRL == InitRL /\ [][NextRL]_vars

\* The admitted calls on call i's key, made before call i, that lie inside the
\* window of call i.
AdmittedBefore(i) ==
  {j \in 1..(i - 1) : /\ hist[j].op = "check"
                      /\ hist[j].key = hist[i].key
                      /\ hist[j].res
                      /\ hist[j].t > hist[i].t - window}

\* C1: once `limit` calls on a key were admitted inside the window, the next
\* check_rate_limit on that key inside the window is rejected, also when
\* several of the calls fall into the same clock second.
C1_RejectAfterLimit ==
  \A i \in 1..Len(hist) :
    (hist[i].op = "check" /\ Cardinality(AdmittedBefore(i)) >= limit)
      => hist[i].res = FALSE

\* ------------------------------------------------ RateLimiter (concurrent)
\* Callers in several gateway processes share the store: each of the four
\* Redis commands of check_rate_limit is a round trip of its own, and other
\* callers' commands may be served between two of them.
Start(p, k) ==
  /\ pc[p] = "idle"
  /\ loc' = [loc EXCEPT ![p] = [key |-> k, current_time |-> now,
                                current_requests |-> 0, result |-> FALSE]]
  /\ pc' = [pc EXCEPT ![p] = "zremrangebyscore"]
  /\ UNCHANGED <<now, limit, window, rlVars, hist, authVars, pipeVars>>

Evict(p) ==
  /\ pc[p] = "zremrangebyscore"
  /\ LET k == loc[p].key
         cleaned == zremrangebyscore(Live(rl[k], rlExpire[k], now), 0,
                                     loc[p].current_time - window)
     IN  /\ rl' = [rl EXCEPT ![k] = cleaned]
         /\ rlExpire' = [rlExpire EXCEPT ![k] = Ttl(cleaned, rlExpire[k])]
  /\ pc' = [pc EXCEPT ![p] = "zcard"]
  /\ UNCHANGED <<now, limit, window, hist, loc, authVars, pipeVars>>

Count(p) ==
  /\ pc[p] = "zcard"
  /\ LET k == loc[p].key
         current_requests == zcard(Live(rl[k], rlExpire[k], now))
     IN  /\ loc' = [loc EXCEPT ![p].current_requests = current_requests]
         /\ pc' = [pc EXCEPT ![p] = IF current_requests >= limit THEN "done"
                                    ELSE "zadd"]
  /\ UNCHANGED <<now, limit, window, rlVars, hist, authVars, pipeVars>>

Zadd(p) ==
  /\ pc[p] = "zadd"
  /\ LET k == loc[p].key
         t == loc[p].current_time
     IN  /\ rl' = [rl EXCEPT ![k] = zadd(Live(rl[k], rlExpire[k], now), str(t), t)]
         /\ rlExpire' = [rlExpire EXCEPT ![k] =
                           IF Expired(rlExpire[k], now) THEN NoExpiry ELSE rlExpire[k]]
  /\ pc' = [pc EXCEPT ![p] = "expire"]
  /\ UNCHANGED <<now, limit, window, hist, loc, authVars, pipeVars>>

Expire(p) ==
  /\ pc[p] = "expire"
  /\ LET k == loc[p].key
     IN  rlExpire' = [rlExpire EXCEPT ![k] =
                        IF Live(rl[k], rlExpire[k], now) = {} THEN NoExpiry
                        ELSE now + window]
  /\ loc' = [loc EXCEPT ![p].result = TRUE]
  /\ pc' = [pc EXCEPT ![p] = "done"]
  /\ UNCHANGED <<now, limit, window, rl, hist, authVars, pipeVars>>

NextRLConc ==
  \/ Tick
  \/ \E p \in Procs, k \in Keys : Start(p, k)
  \/ \E p \in Procs : Evict(p)
  \/ \E p \in Procs : Count(p)
  \/ \E p \in Procs : Zadd(p)
  \/ \E p \in Procs : Expire(p)

\* Concurrent callers of check_rate_limit, one call each.
SpecRLConc == InitRL /\ [][NextRLConc]_vars

\* The entries of key k that lie inside the window ending now.
InWindow(k) == {e \in rl[k] : e.score > now - window}

\* C2: under concurrent callers the evict, count and insert of one call act as
\* one atomic operation, so that the entries recorded for a key inside the
\* window never exceed the limit.
C2_AtomicAdmission ==
  \A k \in Keys : Cardinality(InWindow(k)) <= limit

\* ------------------------------------------------------------ auth.py
JWT_ACCESS_TOKEN_EXPIRE_MINUTES == 30
JWT_REFRESH_TOKEN_EXPIRE_DAYS == 7
SessionHours == 24              \* timedelta(hours=24) of the session SETEX
DefaultBlacklistTtl == 3600     \* expires_in or 3600

minutes(n) == n * 60
hours(n) == n * 3600
days(n) == n * 86400

\* ROLE_PERMISSIONS
ROLE_PERMISSIONS ==
  [r \in {"admin", "tournament_manager", "referee", "team_captain", "player", "viewer"} |->
     CASE r = "admin" ->
            {"tournament:create", "tournament:update", "tournament:delete",
             "tournament:view", "tournament:deploy", "tournament:pause",
             "team:approve", "team:reject", "team:view", "team:update", "team:delete",
             "match:schedule", "match:update", "match:submit_result",
             "match:approve_result", "match:reject_result",
             "system:view_audit", "system:manage_users", "system:config",
             "system:metrics"}
       [] r = "tournament_manager" ->
            {"tournament:create", "tournament:update", "tournament:view",
             "tournament:deploy", "tournament:pause",
             "team:approve", "team:reject", "team:view",
             "match:schedule", "match:update",
             "match:approve_result", "match:reject_result",
             "system:view_audit"}
       [] r = "referee" ->
            {"tournament:view", "team:view", "match:submit_result", "match:update"}
       [] r = "team_captain" -> {"tournament:view", "team:view", "team:update"}
       [] r = "player" -> {"tournament:view", "team:view"}
       [] r = "viewer" -> {"tournament:view"}]

\* A lookup that falls back to the viewer's permissions.
permissions_of_default_viewer(role) ==
  IF role \in DOMAIN ROLE_PERMISSIONS THEN ROLE_PERMISSIONS[role]
  ELSE ROLE_PERMISSIONS["viewer"]

\* ROLE_PERMISSIONS.get(role, [])
permissions_of(role) ==
  IF role \in DOMAIN ROLE_PERMISSIONS THEN ROLE_PERMISSIONS[role] ELSE {}

\* The claims a caller hands to create_access_token / create_refresh_token.
TokenData(subs, emails, roles, sids, jtis) ==
  [sub : subs, email : emails, role : roles, session_id : sids, jti : jtis,
   type : {Absent}, iat : {NoTime}, exp : {NoTime}]

NoDelta == 0
ExpiresDeltas == {NoDelta, hours(1)}

\* create_access_token that lets the caller's claims win over the stamps.
create_access_token_keeps(data, expires_delta, t) ==
  LET expire == IF expires_delta # NoDelta THEN t + expires_delta
                ELSE t + minutes(JWT_ACCESS_TOKEN_EXPIRE_MINUTES)
  IN  [data EXCEPT !.exp = IF data.exp # NoTime THEN data.exp ELSE expire,
                   !.iat = IF data.iat # NoTime THEN data.iat ELSE t,
                   !.type = IF data.type # Absent THEN data.type ELSE "access"]

\* TokenManager.create_access_token(data, expires_delta) at time t: the payload
\* that is signed.
create_access_token(data, expires_delta, t) ==
  LET expire == IF expires_delta # NoDelta THEN t + expires_delta
                ELSE t + minutes(JWT_ACCESS_TOKEN_EXPIRE_MINUTES)
  IN  [data EXCEPT !.exp = expire, !.iat = t, !.type = "access"]

\* TokenManager.create_refresh_token(data) at time t.
create_refresh_token(data, t) ==
  LET expire == t + days(JWT_REFRESH_TOKEN_EXPIRE_DAYS)
  IN  [data EXCEPT !.exp = expire, !.iat = t, !.type = "refresh"]

\* The payloads the TokenManager can have signed by now from the claims in
\* `data`, with the lifetimes in `deltas`.
SignedTokens(data, deltas) ==
  {create_access_token(d, delta, t) : d \in data, delta \in deltas, t \in past}
    \cup {create_refresh_token(d, t) : d \in data, t \in past}

\* What a client can present as bearer credentials: a token the TokenManager
\* signed, or the same text with a signature that does not verify.
Credentials(data, deltas) == [token : SignedTokens(data, deltas), signed : BOOLEAN]

\* jwt.decode(token, JWT_SECRET, algorithms=[JWT_ALGORITHM]): the signature is
\* verified first, then exp (unless verify_exp is off).
jwt_decode(cred, t, verify_exp) ==
  IF ~cred.signed THEN "InvalidTokenError"
  ELSE IF verify_exp /\ cred.token.exp # NoTime /\ cred.token.exp <= t
         THEN "ExpiredSignatureError"
  ELSE "ok"

\* token[:16]: the first 16 characters of the encoded token.  They lie inside
\* the header segment, base64 of {"alg":"HS256","typ":"JWT"}, which every
\* token of the TokenManager starts with.
TokenPrefix == "eyJhbGciOiJIUzI1"

\* f"blacklist:{jti}" with jti = payload.get("jti") or token[:16]
blacklist_key(cred) ==
  IF cred.token.jti # Absent THEN <<"blacklist", cred.token.jti>>
  ELSE <<"blacklist", TokenPrefix>>

\* SETEX key ttl value at time t
setex(store, key, ttl, t) ==
  {r \in store : r.key # key} \cup {[key |-> key, expireAt |-> t + ttl]}

\* EXISTS key at time t
exists(store, key, t) == \E r \in store : r.key = key /\ r.expireAt >= t

\* blacklist_token whose handler writes the record again, with the default
\* time to live, and gets it through.
blacklist_token_retry(cred, store, t, fault) ==
  IF jwt_decode(cred, t, TRUE) # "ok" THEN store
  ELSE LET jti == blacklist_key(cred)
           exp == cred.token.exp
       IN  IF exp # NoTime
             THEN LET ttl == exp - t
                  IN  IF ttl > 0
                        THEN setex(store, jti, IF fault THEN DefaultBlacklistTtl ELSE ttl, t)
                        ELSE store
             ELSE setex(store, jti, DefaultBlacklistTtl, t)

\* blacklist_token that gives every record the default time to live.
blacklist_token_default_ttl(cred, store, t, fault) ==
  IF jwt_decode(cred, t, TRUE) # "ok" THEN store
  ELSE IF fault THEN store
  ELSE setex(store, blacklist_key(cred), DefaultBlacklistTtl, t)

\* TokenManager.blacklist_token(token, expires_in) at time t: the revocation
\* store it leaves.  Every exception is logged and swallowed.
blacklist_token(cred, store, t, fault) ==
  IF jwt_decode(cred, t, TRUE) # "ok" THEN store
  ELSE LET jti == blacklist_key(cred)
           exp == cred.token.exp
       IN  IF exp # NoTime
             THEN LET ttl == exp - t
                  IN  IF ttl > 0 /\ ~fault THEN setex(store, jti, ttl, t) ELSE store
             ELSE IF fault THEN store ELSE setex(store, jti, DefaultBlacklistTtl, t)

\* is_token_blacklisted that answers "not blacklisted" when the lookup raises.
is_token_blacklisted_fail_open(cred, store, t, fault) ==
  IF jwt_decode(cred, t, FALSE) # "ok" THEN TRUE
  ELSE IF fault THEN FALSE
  ELSE exists(store, blacklist_key(cred), t)

\* TokenManager.is_token_blacklisted(token) at time t.
is_token_blacklisted(cred, store, t, fault) ==
  IF jwt_decode(cred, t, FALSE) # "ok" THEN TRUE
  ELSE IF fault THEN TRUE
  ELSE exists(store, blacklist_key(cred), t)

\* TokenManager.verify_token(token) at time t: "ok" or the 401 it raises.
verify_token_noexp(cred, t) ==
  LET r == jwt_decode(cred, t, FALSE)
  IN  IF r = "InvalidTokenError" THEN "Invalid token" ELSE "ok"

\* verify_token that still accepts a token in the second after its exp.
verify_token_late(cred, t) ==
  LET r == jwt_decode(cred, t - 1, TRUE)
  IN  IF r = "ExpiredSignatureError" THEN "Token has expired"
      ELSE IF r = "InvalidTokenError" THEN "Invalid token"
      ELSE "ok"

verify_token(cred, t) ==
  LET r == jwt_decode(cred, t, TRUE)
  IN  IF r = "ExpiredSignatureError" THEN "Token has expired"
      ELSE IF r = "InvalidTokenError" THEN "Invalid token"
      ELSE "ok"

\* The session record as a command finds it at time t.
session_at(sess, sid, t) ==
  IF sid \in DOMAIN sess /\ sess[sid] # NoSession /\ sess[sid].expireAt >= t
    THEN sess[sid] ELSE NoSession

\* get_session without the SETEX that follows the GET.
get_session_noextend(sess, sid, t, fault) ==
  LET session_data == session_at(sess, sid, t)
  IN  IF fault = "get" THEN [raised |-> TRUE, data |-> NoSession, sessions |-> sess]
      ELSE IF session_data # NoSession
        THEN [raised |-> FALSE,
              data |-> [session_data EXCEPT !.last_activity = t], sessions |-> sess]
      ELSE [raised |-> FALSE, data |-> NoSession, sessions |-> sess]

\* SessionManager.get_session(session_id) at time t.  fault names the Redis
\* command that raises, if one does.
get_session(sess, sid, t, fault) ==
  LET session_data == session_at(sess, sid, t)
  IN  IF fault = "get" THEN [raised |-> TRUE, data |-> NoSession, sessions |-> sess]
      ELSE IF session_data # NoSession
        THEN LET data == [session_data EXCEPT !.last_activity = t,
                                              !.expireAt = t + hours(SessionHours)]
             IN  IF fault = "setex"
                   THEN [raised |-> TRUE, data |-> NoSession, sessions |-> sess]
                   ELSE [raised |-> FALSE, data |-> data,
                         sessions |-> [sess EXCEPT ![sid] = data]]
      ELSE [raised |-> FALSE, data |-> NoSession, sessions |-> sess]

\* not session_data or session_data.get("user_id") != user_id
invalid_session_lax(session_data, user_id) ==
  session_data # NoSession /\ session_data.user_id # user_id

invalid_session(session_data, user_id) ==
  session_data = NoSession \/ session_data.user_id # user_id

\* payload.get("type") != "access"
wrong_type_never(payload) == FALSE

wrong_type(payload) == payload.type # "access"

Http401(detail, sess) ==
  [status |-> "HTTPException", code |-> 401, detail |-> detail, user |-> NoUser,
   sessions |-> sess]

\* get_current_user(credentials) at time t: what it returns or raises, and the
\* session store it leaves.
get_current_user(cred, store, sess, t, fault) ==
  IF is_token_blacklisted(cred, store, t, fault = "exists")
    THEN Http401("Token has been revoked", sess)
  ELSE IF verify_token(cred, t) # "ok" THEN Http401(verify_token(cred, t), sess)
  ELSE LET payload == cred.token
           user_id == payload.sub
           email == payload.email
           role == payload.role
           session_id == payload.session_id
       IN  IF wrong_type(payload) THEN Http401("Invalid token type", sess)
           ELSE IF user_id = Absent \/ email = Absent \/ role = Absent
             THEN Http401("Invalid token payload", sess)
           ELSE LET permissions == permissions_of(role)
                    user == [user_id |-> user_id, email |-> email, role |-> role,
                             permissions |-> permissions, session_id |-> session_id]
                IN  IF session_id = Absent
                      THEN [status |-> "ok", code |-> 200, detail |-> "", user |-> user,
                            sessions |-> sess]
                    ELSE LET got == get_session(sess, session_id, t, fault)
                         IN  IF got.raised
                               THEN [status |-> "RedisError", code |-> 500,
                                     detail |-> "", user |-> NoUser,
                                     sessions |-> got.sessions]
                             ELSE IF invalid_session(got.data, user_id)
                               THEN Http401("Invalid session", got.sessions)
                             ELSE [status |-> "ok", code |-> 200, detail |-> "",
                                   user |-> user, sessions |-> got.sessions]

\* get_optional_user(credentials) at time t.
get_optional_user(cred, store, sess, t, fault) ==
  IF cred = NoCred
    THEN [status |-> "ok", code |-> 200, detail |-> "", user |-> NoUser, sessions |-> sess]
  ELSE LET r == get_current_user(cred, store, sess, t, fault)
       IN  IF r.status = "HTTPException"
             THEN [status |-> "ok", code |-> 200, detail |-> "", user |-> NoUser,
                   sessions |-> r.sessions]
             ELSE r

\* ------------------------------------------------- the token/session actions
\* The access log after a call that took the store from `before` to `after`
\* at time t: the sessions the call rewrote were read and extended by it.
accessed(log, before, after, t) ==
  [s \in Sids |-> IF after[s] # before[s] THEN [log[s] EXCEPT !.last = t]
                  ELSE log[s]]

FaultPoints == {"none", "exists", "get", "setex"}
Subjects == {"u1", "u2"}

\* Time passes.  Records whose time to live ran out are dropped.
Advance(d) ==
  /\ lastAuth = NoCall
  /\ Cardinality(past) <= MaxAdvances
  /\ now' = now + d
  /\ past' = past \cup {now + d}
  /\ blacklist' = {r \in blacklist : r.expireAt >= now + d}
  /\ sessions' = [s \in Sids |-> session_at(sessions, s, now + d)]
  /\ UNCHANGED <<rateVars, pipeVars, sidsUsed, revoked, lastAuth, slog>>

\* uuid.uuid4(): an id that was never handed out.
uuid4(pool) ==
  LET free(i) == SidSeq[i] \in pool \ sidsUsed
      first == CHOOSE i \in 1..Len(SidSeq) : free(i) /\ \A j \in 1..(i - 1) : ~free(j)
  IN  SidSeq[first]

\* SessionManager.create_session(user_id, session_data).  pool: the ids uuid4
\* draws from.
CreateSession(user_id, pool) ==
  /\ lastAuth = NoCall
  /\ pool \ sidsUsed # {}
  /\ LET session_id == uuid4(pool)
     IN  /\ sessions' = [sessions EXCEPT ![session_id] =
                           [user_id |-> user_id, created_at |-> now,
                            last_activity |-> now,
                            expireAt |-> now + hours(SessionHours)]]
         /\ sidsUsed' = sidsUsed \cup {session_id}
         /\ slog' = [slog EXCEPT ![session_id] =
                       [created |-> TRUE, deleted |-> FALSE, last |-> now]]
  /\ UNCHANGED <<now, rateVars, pipeVars, past, blacklist, revoked, lastAuth>>

\* SessionManager.delete_session(session_id): redis_client.delete(session_key)
\* removes the key if it is there.
delete_session_flush(sess, session_id) == [s \in DOMAIN sess |-> NoSession]

delete_session(sess, session_id) == [sess EXCEPT ![session_id] = NoSession]

DeleteSession(session_id) ==
  /\ lastAuth = NoCall
  /\ sessions' = delete_session(sessions, session_id)
  /\ slog' = [slog EXCEPT ![session_id].deleted = TRUE]
  /\ UNCHANGED <<now, rateVars, pipeVars, past, blacklist, sidsUsed, revoked>>

\* TokenManager.blacklist_token(token).  `revoked` keeps one of the tokens a
\* record was written for (track says whether it is this one).
BlacklistToken(cred, fault, track) ==
  /\ lastAuth = NoCall
  /\ blacklist' = blacklist_token(cred, blacklist, now, fault)
  /\ revoked' = IF track /\ blacklist_token(cred, blacklist, now, fault) # blacklist
                  THEN cred.token ELSE revoked
  /\ UNCHANGED <<now, rateVars, pipeVars, past, sessions, sidsUsed, slog>>

\* What a call of the resolver was given, found and answered.
CallRecord(fn, cred, fault, r) ==
  [fn |-> fn, cred |-> cred, t |-> now, fault |-> fault,
   status |-> r.status, code |-> r.code, detail |-> r.detail, user |-> r.user,
   hadRecord |-> cred # NoCred /\ exists(blacklist, blacklist_key(cred), now),
   hadSession |-> IF cred # NoCred /\ cred.token.session_id # Absent
                    THEN session_at(sessions, cred.token.session_id, now)
                    ELSE NoSession,
   touched |-> r.sessions # sessions,
   wasRevoked |-> cred # NoCred /\ cred.signed /\ cred.token = revoked]

GetCurrentUser(cred, fault) ==
  /\ lastAuth = NoCall
  /\ LET r == get_current_user(cred, blacklist, sessions, now, fault)
     IN  /\ sessions' = r.sessions
         /\ slog' = accessed(slog, sessions, r.sessions, now)
         /\ lastAuth' = CallRecord("get_current_user", cred, fault, r)
  /\ UNCHANGED <<now, rateVars, pipeVars, past, blacklist, sidsUsed, revoked>>

GetOptionalUser(cred, fault) ==
  /\ lastAuth = NoCall
  /\ LET r == get_optional_user(cred, blacklist, sessions, now, fault)
     IN  /\ sessions' = r.sessions
         /\ slog' = accessed(slog, sessions, r.sessions, now)
         /\ lastAuth' = CallRecord("get_optional_user", cred, fault, r)
  /\ UNCHANGED <<now, rateVars, pipeVars, past, blacklist, sidsUsed, revoked>>

\* The caller takes the result of the call; the next call can be made.
Return ==
  /\ lastAuth # NoCall
  /\ lastAuth' = NoCall
  /\ UNCHANGED <<now, rateVars, pipeVars, past, blacklist, sessions, sidsUsed, revoked, slog>>

InitAuth ==
  /\ now = 0
  /\ limit = 1
  /\ window = 1
  /\ rl = [k \in Keys |-> {}]
  /\ rlExpire = [k \in Keys |-> NoExpiry]
  /\ hist = <<>>
  /\ pc = [p \in Procs |-> "idle"]
  /\ loc = [p \in Procs |-> NoLoc]
  /\ AuthIdle

\* The inputs of the resolver: every combination of present and absent claims,
\* tokens of both kinds, issued at any time so far.
AuthSteps == {minutes(JWT_ACCESS_TOKEN_EXPIRE_MINUTES), hours(SessionHours)}
AuthSids == {"s1"}
AuthData ==
  TokenData({Absent, "u1", "u2"}, {Absent, "u1@x.org"},
            {Absent, "admin", "viewer", "guest"}, {Absent, "s1"}, {Absent})
AuthCreds == Credentials(AuthData, {NoDelta})

AuthBlacklistToken ==
  /\ lastAuth = NoCall
  /\ \E cred \in AuthCreds, fault \in BOOLEAN : BlacklistToken(cred, fault, FALSE)
  /\ UNCHANGED lastAuth

AuthGetCurrentUser ==
  /\ lastAuth = NoCall
  /\ \E cred \in AuthCreds, fault \in FaultPoints : GetCurrentUser(cred, fault)

AuthGetOptionalUser ==
  /\ lastAuth = NoCall
  /\ \E cred \in AuthCreds \cup {NoCred}, fault \in FaultPoints :
       GetOptionalUser(cred, fault)

NextAuth ==
  \/ \E d \in AuthSteps : Advance(d)
  \/ \E u \in Subjects : CreateSession(u, AuthSids)
  \/ \E s \in AuthSids : DeleteSession(s) /\ UNCHANGED lastAuth
  \/ AuthBlacklistToken
  \/ AuthGetCurrentUser
  \/ AuthGetOptionalUser
  \/ Return

\* The auth resolver over the token manager and the session store.
SpecAuth == InitAuth /\ [][NextAuth]_vars

\* ------------------------------------------------ the claims on the resolver
IsCall(fn) == lastAuth # NoCall /\ lastAuth.fn = fn

\* The conditions of a resolution, read off the token and the stores as they
\* were when the call was made.
NotRevoked(c) == ~c.hadRecord
SignedUnexpired(c) == c.cred.signed /\ c.cred.token.exp > c.t
KindAccess(c) == c.cred.token.type = "access"
ClaimsPresent(c) ==
  c.cred.token.sub # Absent /\ c.cred.token.email # Absent /\ c.cred.token.role # Absent
SessionBound(c) ==
  c.cred.token.session_id # Absent =>
    (c.hadSession # NoSession /\ c.hadSession.user_id = c.cred.token.sub)

\* The store answered every lookup the resolution made: the revocation lookup
\* is made for every token whose signature decodes, the session lookup (GET,
\* then SETEX) once the four token checks passed on a token with a session_id.
LookupsAnswered(c) ==
  /\ ~(c.fault = "exists" /\ c.cred.signed)
  /\ ~(/\ c.fault \in {"get", "setex"}
       /\ c.cred.token.session_id # Absent
       /\ NotRevoked(c) /\ SignedUnexpired(c) /\ KindAccess(c) /\ ClaimsPresent(c)
       /\ (c.fault = "setex" => c.hadSession # NoSession))

\* The first of the checks, in the order of the resolver, that a token with a
\* good signature fails.
FirstFailure(c) ==
  IF ~NotRevoked(c) THEN "Token has been revoked"
  ELSE IF ~SignedUnexpired(c) THEN "Token has expired"
  ELSE IF ~KindAccess(c) THEN "Invalid token type"
  ELSE IF ~ClaimsPresent(c) THEN "Invalid token payload"
  ELSE IF ~SessionBound(c) THEN "Invalid session"
  ELSE ""

\* C4: get_current_user returns a Principal exactly when the token is not
\* revoked, is signed and unexpired, is an access token, carries sub, email and
\* role, and its session (if it names one) exists and belongs to its subject; a
\* lookup the store does not answer counts as the check failing.  The checks
\* are made in this order: a token with a good signature is rejected for the
\* first check it fails, and the session is read only after the other four
\* passed.  The Principal carries the token's subject, email and role.
C4_PrincipalIffChecks ==
  IsCall("get_current_user") =>
    LET c == lastAuth
        tok == c.cred.token
    IN  /\ (c.status = "ok" /\ c.user # NoUser)
             <=> (/\ NotRevoked(c) /\ SignedUnexpired(c) /\ KindAccess(c)
                  /\ ClaimsPresent(c) /\ SessionBound(c) /\ LookupsAnswered(c))
        /\ c.user # NoUser =>
             /\ c.user.user_id = tok.sub /\ c.user.email = tok.email
             /\ c.user.role = tok.role /\ c.user.session_id = tok.session_id
        /\ c.user = NoUser => c.status # "ok"
        /\ (c.cred.signed /\ c.fault = "none") => c.detail = FirstFailure(c)
        /\ c.touched =>
             (NotRevoked(c) /\ SignedUnexpired(c) /\ KindAccess(c) /\ ClaimsPresent(c))

\* A resolution that passed all five checks on a token bound to a session.
C4_Witness ==
  /\ IsCall("get_current_user")
  /\ lastAuth.status = "ok" /\ lastAuth.user # NoUser
  /\ lastAuth.cred.token.session_id # Absent
  /\ lastAuth.touched

\* C5: get_optional_user never fails: whatever the credential, and also when
\* the session or revocation store raises, it returns a Principal or None.
C5_OptionalNeverFails ==
  IsCall("get_optional_user") => lastAuth.status = "ok"

\* C6: a signed, unexpired, unrevoked token that names a session which no
\* longer resolves (deleted or expired) yields no Principal: get_current_user
\* rejects it with 401 (unless the session lookup itself raises), and with
\* "Invalid session" when nothing else is wrong with the token.
C6_StaleSessionRejected ==
  IsCall("get_current_user") =>
    LET c == lastAuth
    IN  (/\ NotRevoked(c) /\ SignedUnexpired(c)
         /\ c.cred.token.session_id # Absent
         /\ c.hadSession = NoSession)
          => /\ c.user = NoUser
             /\ c.fault # "get" => (c.status = "HTTPException" /\ c.code = 401)
             /\ (c.fault = "none" /\ KindAccess(c) /\ ClaimsPresent(c))
                  => c.detail = "Invalid session"

\* An otherwise good token whose session was created and is gone is rejected.
C6_Witness ==
  /\ IsCall("get_current_user")
  /\ NotRevoked(lastAuth) /\ SignedUnexpired(lastAuth)
  /\ KindAccess(lastAuth) /\ ClaimsPresent(lastAuth)
  /\ lastAuth.cred.token.session_id \in sidsUsed
  /\ lastAuth.hadSession = NoSession
  /\ lastAuth.fault = "none"
  /\ lastAuth.code = 401

\* ---------------------------------------------------------- revocation
\* The inputs of revocation: good access and refresh tokens of two lifetimes
\* without a jti, and one access token that carries a jti of its own.
RevokeSteps == {1, minutes(JWT_ACCESS_TOKEN_EXPIRE_MINUTES)}
RevokeData(jtis) == TokenData({"u1"}, {"u1@x.org"}, {"admin"}, {Absent}, jtis)
RevokeCreds ==
  [token : SignedTokens(RevokeData({Absent}), ExpiresDeltas)
             \cup {create_access_token(d, NoDelta, 0) : d \in RevokeData({"j1"})},
   signed : BOOLEAN]

RevokeBlacklistToken ==
  /\ lastAuth = NoCall
  /\ \E cred \in RevokeCreds, fault \in BOOLEAN, track \in BOOLEAN :
       BlacklistToken(cred, fault, track)
  /\ UNCHANGED lastAuth

RevokeGetCurrentUser ==
  /\ lastAuth = NoCall
  /\ \E cred \in RevokeCreds, fault \in {"none", "exists"} : GetCurrentUser(cred, fault)

NextRevoke ==
  \/ \E d \in RevokeSteps : Advance(d)
  \/ RevokeBlacklistToken
  \/ RevokeGetCurrentUser
  \/ Return

\* Revocation and resolution of tokens over time.
SpecRevoke == InitAuth /\ [][NextRevoke]_vars

\* C3: once blacklist_token has written the record of an unexpired token, every
\* later get_current_user with that token fails with 401 at every time before
\* the token's exp.
C3_RevokedStaysRejected ==
  IsCall("get_current_user") =>
    ((lastAuth.wasRevoked /\ lastAuth.t < lastAuth.cred.token.exp)
       => (lastAuth.status = "HTTPException" /\ lastAuth.code = 401))

\* ------------------------------------------------- api-gateway/main.py
VERSION == "1.0.0"

\* SERVICE_URLS
SERVICE_URLS ==
  [s \in {"tournament", "elo", "leaderboard", "review", "hash", "team", "match",
          "notification", "audit"} |->
     CASE s = "tournament" -> "http://tournament-api:8080"
       [] s = "elo" -> "http://elo-service:8080"
       [] s = "leaderboard" -> "http://leaderboard-service:8080"
       [] s = "review" -> "http://review-workflow:8080"
       [] s = "hash" -> "http://hash-verification:8080"
       [] s = "team" -> "http://team-management:8080"
       [] s = "match" -> "http://match-scheduling:8080"
       [] s = "notification" -> "http://notification-service:8080"
       [] s = "audit" -> "http://audit-service:8080"]

\* The proxy routes: the service a route forwards to, the dependency that
\* resolves its user argument ("none" when the handler takes no user), and the
\* permission its handler asks for.
ROUTES ==
  [r \in {"tournaments", "teams", "matches", "leaderboards", "elo", "reviews",
          "notifications", "audit"} |->
     CASE r = "tournaments" ->
            [service |-> "tournament", depends |-> "get_optional_user", permission |-> Absent]
       [] r = "teams" ->
            [service |-> "team", depends |-> "get_optional_user", permission |-> Absent]
       [] r = "matches" ->
            [service |-> "match", depends |-> "get_optional_user", permission |-> Absent]
       [] r = "leaderboards" ->
            [service |-> "leaderboard", depends |-> "none", permission |-> Absent]
       [] r = "elo" ->
            [service |-> "elo", depends |-> "get_optional_user", permission |-> Absent]
       [] r = "reviews" ->
            [service |-> "review", depends |-> "get_current_user", permission |-> Absent]
       [] r = "notifications" ->
            [service |-> "notification", depends |-> "get_optional_user", permission |-> Absent]
       [] r = "audit" ->
            [service |-> "audit", depends |-> "get_current_user",
             permission |-> "system:view_audit"]]

\* A header name in lower case.  The ASGI server hands the request's header
\* names over in lower case; the names the gateway writes are mixed case.
lower(name) ==
  CASE name = "X-User-ID" -> "x-user-id"
    [] name = "X-User-Email" -> "x-user-email"
    [] name = "X-User-Role" -> "x-user-role"
    [] name = "X-Request-ID" -> "x-request-id"
    [] name = "X-Forwarded-For" -> "x-forwarded-for"
    [] name = "X-API-Version" -> "x-api-version"
    [] name = "X-Rate-Limit-Remaining" -> "x-rate-limit-remaining"
    [] name = "X-Rate-Limit-Reset" -> "x-rate-limit-reset"
    [] OTHER -> name

\* A Python dict of headers: a sequence of [name, value] in insertion order,
\* its keys compared as the exact strings they are.
dict_set(d, k, v) ==
  IF \E i \in 1..Len(d) : d[i].name = k
    THEN [i \in 1..Len(d) |-> IF d[i].name = k THEN [name |-> k, value |-> v] ELSE d[i]]
    ELSE Append(d, [name |-> k, value |-> v])

\* d.pop(k, None)
dict_pop(d, k) ==
  LET keep(e) == e.name # k
  IN  SelectSeq(d, keep)

hop_by_hop ==
  <<"connection", "keep-alive", "proxy-authenticate", "proxy-authorization", "te",
    "trailers", "transfer-encoding", "upgrade">>

\* AuthUser.has_permission(permission)
has_permission_any(user, permission) == TRUE

has_permission(user, permission) ==
  user # NoUser /\ permission \in user.permissions

\* f"{client_ip}:{user_agent}"
rate_limit_key(client_ip, user_agent) ==
  CASE client_ip = "ip1" /\ user_agent = "ua" -> "ip1:ua"
    [] client_ip = "ip2" /\ user_agent = "ua" -> "ip2:ua"

\* if not RateLimiter.check_rate_limit(...): the request is turned away.
rate_limited_never(allowed) == FALSE

rate_limited(allowed) == ~allowed

\* JSONResponse(content, status_code, headers): header names are written in
\* lower case, the content type is added.
JSONResponse(content, status_code, headers) ==
  [status |-> status_code, content |-> content,
   headers |-> dict_set([i \in 1..Len(headers) |->
                           [name |-> lower(headers[i].name), value |-> headers[i].value]],
                        "content-type", "application/json")]

\* response.headers[name] = value: the name is matched and stored in lower case.
set_header(response, name, value) ==
  [response EXCEPT !.headers = dict_set(response.headers, lower(name), value)]

\* The 429 of request_middleware.
rate_limit_response(rate_info, request_id) ==
  JSONResponse([success |-> FALSE, code |-> "RATE_LIMIT_EXCEEDED",
                message |-> "Rate limit exceeded", request_id |-> request_id],
               429,
               <<[name |-> "X-Rate-Limit-Remaining", value |-> rate_info.remaining],
                 [name |-> "X-Rate-Limit-Reset", value |-> rate_info.reset_time]>>)

\* The 500 of request_middleware's except branch.
middleware_error_response(request_id) ==
  JSONResponse([success |-> FALSE, code |-> "INTERNAL_ERROR",
                message |-> "Internal server error", request_id |-> request_id],
               500, <<>>)

\* http_exception_handler(request, exc)
http_exception_handler(request_id, status_code, detail) ==
  JSONResponse([success |-> FALSE, code |-> "HTTP_ERROR", message |-> detail,
                request_id |-> request_id],
               status_code, <<>>)

\* general_exception_handler(request, exc)
general_exception_handler(request_id) ==
  JSONResponse([success |-> FALSE, code |-> "INTERNAL_ERROR",
                message |-> "Internal server error", request_id |-> request_id],
               500, <<>>)

\* request_middleware after call_next returned a response: the correlation id
\* and the version are set on it.
after_call_next(response, request_id) ==
  set_header(set_header(response, "X-Request-ID", request_id), "X-API-Version", VERSION)

\* The sample request_count.labels(method, endpoint, status).inc() records.
count_sample(request, status_code) ==
  [metric |-> "http_requests_total", endpoint |-> request.route, status |-> status_code]

duration_sample == [metric |-> "http_request_duration_seconds"]

\* proxy_to_service: the headers of the request sent downstream.
forward_headers(request, user) ==
  LET h0 == request.headers
      h1 == IF user # NoUser
              THEN dict_set(dict_set(dict_set(h0, "X-User-ID", user.user_id),
                                     "X-User-Email", user.email),
                            "X-User-Role", user.role)
              ELSE h0
      h2 == dict_set(h1, "X-Request-ID", request.request_id)
      h3 == dict_set(h2, "X-Forwarded-For", request.client)
      RECURSIVE strip(_, _)
      strip(h, i) == IF i > Len(hop_by_hop) THEN h
                     ELSE strip(dict_pop(h, hop_by_hop[i]), i + 1)
  IN  strip(h3, 1)

\* --------------------------------------------------- the request pipeline
MaxRequests == 3

Last(seq) == seq[Len(seq)]

\* The principal the dependencies of the route resolved, None when there is none.
principal == IF lastAuth = NoCall THEN NoUser ELSE lastAuth.user

\* The Authorization header a client sends with its bearer credentials.
authorization(cred) ==
  IF cred = NoCred THEN <<>>
  ELSE <<[name |-> "authorization", value |-> <<"Bearer", cred>>]>>

\* uvicorn hands a request to the application; request_middleware draws its
\* request id.
Receive(route, client, headers, cred) ==
  /\ req = NoRequest
  /\ served < MaxRequests
  /\ req' = [route |-> route, client |-> client, user_agent |-> "ua",
             headers |-> headers \o authorization(cred), cred |-> cred,
             request_id |-> <<"uuid4", served + 1>>]
  /\ stages' = <<"START">>
  /\ served' = served + 1
  /\ UNCHANGED <<now, rateVars, authVars, rateCall, calls, resp, metrics, down, escaped, tournaments>>

\* request_middleware up to call_next: the rate limit check and, for a request
\* that is turned away, the 429.  fault names the limiter call in which the
\* store raises, if one does; the exception is raised outside the try block,
\* leaves request_middleware and is answered by general_exception_handler.
RateLimitCheck(fault) ==
  /\ req # NoRequest
  /\ Last(stages) = "START"
  /\ LET k == rate_limit_key(req.client, req.user_agent)
         chk == check_rate_limit(rl[k], rlExpire[k], limit, window, now)
         inf == get_rate_limit_info(chk.zs, chk.expireAt, limit, window, now)
     IN  IF fault = "check"
           THEN /\ UNCHANGED rlVars
                /\ rateCall' = [allowed |-> FALSE, fault |-> fault, raised |-> TRUE]
                /\ stages' = stages \o <<"RATE_LIMIT_CHECK", "ERROR">>
                /\ resp' = Append(resp, general_exception_handler(req.request_id))
                /\ escaped' = Append(escaped, "RedisError")
                /\ UNCHANGED metrics
         ELSE IF rate_limited(chk.res)
           THEN IF fault = "info"
                  THEN /\ rl' = [rl EXCEPT ![k] = chk.zs]
                       /\ rlExpire' = [rlExpire EXCEPT ![k] = chk.expireAt]
                       /\ rateCall' = [allowed |-> chk.res, fault |-> fault,
                                       raised |-> TRUE]
                       /\ stages' = stages \o <<"RATE_LIMIT_CHECK", "ERROR">>
                       /\ resp' = Append(resp, general_exception_handler(req.request_id))
                       /\ escaped' = Append(escaped, "RedisError")
                       /\ UNCHANGED metrics
                  ELSE /\ rl' = [rl EXCEPT ![k] = inf.zs]
                       /\ rlExpire' = [rlExpire EXCEPT ![k] = inf.expireAt]
                       /\ rateCall' = [allowed |-> chk.res, fault |-> fault,
                                       raised |-> FALSE]
                       /\ stages' = stages \o <<"RATE_LIMIT_CHECK", "ERROR">>
                       /\ resp' = Append(resp, rate_limit_response(inf.info,
                                                                   req.request_id))
                       /\ metrics' = Append(metrics, count_sample(req, 429))
                       /\ UNCHANGED escaped
           ELSE /\ rl' = [rl EXCEPT ![k] = chk.zs]
                /\ rlExpire' = [rlExpire EXCEPT ![k] = chk.expireAt]
                /\ rateCall' = [allowed |-> chk.res, fault |-> "none", raised |-> FALSE]
                /\ stages' = Append(stages, "RATE_LIMIT_CHECK")
                /\ UNCHANGED <<resp, metrics, escaped>>
  /\ UNCHANGED <<now, limit, window, hist, procVars, authVars, req, calls, served, down, tournaments>>

\* What call_next gives request_middleware for an HTTPException raised below
\* it, and the state in which the request then ends.
AnswerHTTPException(status_code, detail, trail) ==
  /\ resp' = Append(resp, after_call_next(
                            http_exception_handler(req.request_id, status_code, detail),
                            req.request_id))
  /\ metrics' = metrics \o <<duration_sample, count_sample(req, status_code)>>
  /\ stages' = stages \o trail \o <<"ERROR">>

\* Any other exception raised below request_middleware is caught by its except
\* branch.
AnswerException(trail) ==
  /\ resp' = Append(resp, middleware_error_response(req.request_id))
  /\ metrics' = Append(metrics, count_sample(req, 500))
  /\ stages' = stages \o trail \o <<"ERROR">>

\* The stage a request enters once it passed the rate limit check: the
\* dependencies a route declares are solved before its handler runs.
next_stage_route(route) == "ROUTE"

next_stage(route) ==
  IF ROUTES[route].depends = "none" THEN "ROUTE" ELSE "AUTH_RESOLVE"

\* Depends(security), security = HTTPBearer(): without credentials the
\* dependency of get_current_user raises 403 itself.
solve_dependencies(route, cred, fault) ==
  IF ROUTES[route].depends = "get_current_user"
    THEN IF cred = NoCred
           THEN [fn |-> "security",
                 r |-> [status |-> "HTTPException", code |-> 403,
                        detail |-> "Not authenticated", user |-> NoUser,
                        sessions |-> sessions]]
           ELSE [fn |-> "get_current_user",
                 r |-> get_current_user(cred, blacklist, sessions, now, fault)]
    ELSE [fn |-> "get_optional_user",
          r |-> get_optional_user(cred, blacklist, sessions, now, fault)]

\* The dependencies of the route are solved: the user of the request is
\* resolved, or the request is answered with the error of the resolver.
AuthResolve(fault) ==
  /\ req # NoRequest
  /\ Last(stages) = "RATE_LIMIT_CHECK"
  /\ next_stage(req.route) = "AUTH_RESOLVE"
  /\ LET d == solve_dependencies(req.route, req.cred, fault)
     IN  /\ sessions' = d.r.sessions
         /\ slog' = accessed(slog, sessions, d.r.sessions, now)
         /\ lastAuth' = CallRecord(d.fn, req.cred, fault, d.r)
         /\ IF d.r.status = "ok"
              THEN /\ stages' = Append(stages, "AUTH_RESOLVE")
                   /\ UNCHANGED <<resp, metrics>>
            ELSE IF d.r.status = "HTTPException"
              THEN AnswerHTTPException(d.r.code, d.r.detail, <<"AUTH_RESOLVE">>)
            ELSE AnswerException(<<"AUTH_RESOLVE">>)
  /\ UNCHANGED <<now, rateVars, past, blacklist, sidsUsed, revoked,
                 req, rateCall, calls, served, down, escaped, tournaments>>

\* The route handler runs: the permission check of the audit route, then
\* proxy_to_service up to the request it sends downstream.
Route ==
  /\ req # NoRequest
  /\ Last(stages) = IF next_stage(req.route) = "ROUTE" THEN "RATE_LIMIT_CHECK"
                    ELSE "AUTH_RESOLVE"
  /\ LET route == ROUTES[req.route]
         user == principal
     IN  IF route.permission # Absent /\ ~has_permission(user, route.permission)
           THEN /\ AnswerHTTPException(403, "Insufficient permissions", <<>>)
                /\ UNCHANGED calls
         ELSE IF route.service \notin DOMAIN SERVICE_URLS
           THEN /\ AnswerHTTPException(404, "Service not found", <<"ROUTE">>)
                /\ UNCHANGED calls
         ELSE /\ calls' = Append(calls, [service |-> route.service,
                                         url |-> <<SERVICE_URLS[route.service], req.route>>,
                                         headers |-> forward_headers(req, user)])
              /\ stages' = Append(stages, "ROUTE")
              /\ UNCHANGED <<resp, metrics>>
  /\ UNCHANGED <<now, rateVars, authVars, req, rateCall, served, down, escaped, tournaments>>

\* proxy_to_service after http_client.request: how the outcome of the call
\* leaves the function.  Only httpx.RequestError is caught and raised again
\* as an HTTPException; what response.json() raises is not.
proxy_result_uncaught(outcome) ==
  IF outcome.kind = "RequestError" \/ outcome.body = "text" THEN "Exception"
  ELSE "JSONResponse"

proxy_result(outcome) ==
  IF outcome.kind = "RequestError" THEN "HTTPException"
  ELSE IF outcome.body = "text" THEN "Exception"
  ELSE "JSONResponse"

\* proxy_to_service makes the downstream call once: the except branch raises
\* the 503 whatever calls were sent before, http_client is given no retries.
send_again_once(outcome, sent) == outcome.kind = "RequestError" /\ Len(sent) < 2

send_again(outcome, sent) == FALSE

\* The downstream call ends: with a response, which is relayed as a
\* JSONResponse, or with an httpx.RequestError (connect error, timeout), which
\* becomes a 503.  A body that is not JSON makes response.json() raise.
DownstreamReturns(outcome) ==
  /\ req # NoRequest
  /\ Last(stages) = "ROUTE"
  /\ down' = Append(down, outcome)
  /\ calls' = IF send_again(outcome, calls) THEN Append(calls, Last(calls)) ELSE calls
  /\ IF send_again(outcome, calls)
       THEN UNCHANGED <<resp, metrics, stages>>
     ELSE IF proxy_result(outcome) = "HTTPException"
       THEN AnswerHTTPException(503, "Service unavailable", <<>>)
     ELSE IF proxy_result(outcome) = "Exception"
       THEN AnswerException(<<>>)
     ELSE /\ resp' = Append(resp, after_call_next(
                                    JSONResponse(outcome.body, outcome.status,
                                                 outcome.headers),
                                    req.request_id))
          /\ metrics' = metrics \o <<duration_sample, count_sample(req, outcome.status)>>
          /\ stages' = Append(stages, "RESPOND")
  /\ UNCHANGED <<now, rateVars, authVars, req, rateCall, served, escaped, tournaments>>

\* The response has gone out; the gateway takes the next request.
Finish ==
  /\ req # NoRequest
  /\ Last(stages) \in {"RESPOND", "ERROR"}
  /\ req' = NoRequest
  /\ stages' = <<>>
  /\ rateCall' = NoCall
  /\ lastAuth' = NoCall
  /\ calls' = <<>>
  /\ resp' = <<>>
  /\ metrics' = <<>>
  /\ down' = <<>>
  /\ escaped' = <<>>
  /\ UNCHANGED <<now, rateVars, past, blacklist, sessions, sidsUsed, revoked, slog, served, tournaments>>

\* The inputs of the pipeline: routes of each policy, clients with and without
\* credentials, inbound headers that carry hop-by-hop or identity names, and
\* downstream services that answer with or without them, or not at all.
PipeRoutes == {"tournaments", "leaderboards", "reviews", "audit"}
PipeClients == {"ip1"}
PipeHeaders ==
  {<<>>,
   <<[name |-> "accept", value |-> "*/*"],
     [name |-> "connection", value |-> "keep-alive, upgrade"],
     [name |-> "keep-alive", value |-> "timeout=5"],
     [name |-> "proxy-authenticate", value |-> "Basic"],
     [name |-> "proxy-authorization", value |-> "Basic cHJveHk="],
     [name |-> "te", value |-> "trailers"],
     [name |-> "trailers", value |-> "expires"],
     [name |-> "transfer-encoding", value |-> "chunked"],
     [name |-> "upgrade", value |-> "websocket"]>>,
   <<[name |-> "x-user-id", value |-> "u0"],
     [name |-> "x-user-email", value |-> "root@x.org"],
     [name |-> "x-user-role", value |-> "admin"]>>}
PipeData == TokenData({"u1"}, {"u1@x.org"}, {"admin", "viewer"}, {Absent, "s1"}, {Absent})
PipeCreds ==
  {NoCred} \cup
  {c \in Credentials(PipeData, {NoDelta}) :
     \/ c.signed /\ c.token.type = "access"
     \/ c.token.role = "admin" /\ c.token.session_id = Absent}
RateFaults == {"none", "check", "info"}
DownstreamOutcomes ==
  [kind : {"response"}, status : {200, 404}, body : {"json", "empty", "text"},
   headers : {<<>>,
              <<[name |-> "connection", value |-> "close"],
                [name |-> "transfer-encoding", value |-> "chunked"],
                [name |-> "etag", value |-> "v1"]>>}]
    \cup [kind : {"RequestError"}, status : {0}, body : {"empty"}, headers : {<<>>}]

PipeReceive ==
  /\ req = NoRequest
  /\ \E route \in PipeRoutes, client \in PipeClients, headers \in PipeHeaders,
        cred \in PipeCreds : Receive(route, client, headers, cred)

NextPipe ==
  \/ Tick
  \/ PipeReceive
  \/ \E fault \in RateFaults : RateLimitCheck(fault)
  \/ \E fault \in FaultPoints : AuthResolve(fault)
  \/ Route
  \/ \E outcome \in DownstreamOutcomes : DownstreamReturns(outcome)
  \/ Finish

\* The gateway handling requests one after the other.
SpecPipe == InitRL /\ [][NextPipe]_vars

\* ------------------------------------------------ the claims on the pipeline
HopByHop == {hop_by_hop[i] : i \in 1..Len(hop_by_hop)}
Names(d) == {lower(d[i].name) : i \in 1..Len(d)}
IdentityHeaders == {"X-User-ID", "X-User-Email", "X-User-Role"}

\* The values a receiver finds under a header name, which it compares without
\* regard to case.
header_values(d, name) ==
  {d[i].value : i \in {j \in 1..Len(d) : lower(d[j].name) = lower(name)}}

\* C7: no hop-by-hop header appears in a request proxy_to_service sends
\* downstream nor in the response it returns to the caller, whatever the client
\* and the downstream service sent.
C7_NoHopByHop ==
  /\ \A i \in 1..Len(calls) : Names(calls[i].headers) \cap HopByHop = {}
  /\ \A i \in 1..Len(resp) : Names(resp[i].headers) \cap HopByHop = {}

\* C8: a forwarded request carries the identity headers X-User-ID, X-User-Email
\* and X-User-Role only when a principal was resolved, and then with exactly
\* the principal's id, email and role, whatever headers the client sent.
C8_IdentityHeaders ==
  \A i \in 1..Len(calls) :
    LET h == calls[i].headers
    IN  IF principal = NoUser
          THEN \A n \in IdentityHeaders : header_values(h, n) = {}
          ELSE /\ header_values(h, "X-User-ID") = {principal.user_id}
               /\ header_values(h, "X-User-Email") = {principal.email}
               /\ header_values(h, "X-User-Role") = {principal.role}

\* C9: a request the rate limiter rejects is answered with 429 (carrying
\* remaining and reset time) and goes through no later stage: no dependency of
\* the route is solved for it and no downstream call is made.  When the store
\* raises on the follow-up lookup of the rate limit info, there is no 429 to
\* give and the answer is the generic 500.
C9_RejectedShortCircuits ==
  (req # NoRequest /\ rateCall # NoCall /\ ~rateCall.allowed) =>
    /\ lastAuth = NoCall
    /\ calls = <<>>
    /\ stages = <<"START", "RATE_LIMIT_CHECK", "ERROR">>
    /\ Len(resp) = 1
    /\ resp[1].status = IF rateCall.raised THEN 500 ELSE 429
    /\ ~rateCall.raised =>
         {"x-rate-limit-remaining", "x-rate-limit-reset"} \subseteq Names(resp[1].headers)

\* A request with good credentials on a route that requires a principal was
\* turned away by the limiter with a 429.
C9_Witness ==
  /\ req # NoRequest /\ rateCall # NoCall
  /\ ~rateCall.allowed /\ ~rateCall.raised
  /\ req.route = "reviews"
  /\ req.cred # NoCred /\ req.cred.signed /\ req.cred.token.type = "access"
  /\ Len(resp) = 1 /\ resp[1].status = 429

Rank(stage) ==
  CASE stage = "START" -> 1
    [] stage = "RATE_LIMIT_CHECK" -> 2
    [] stage = "AUTH_RESOLVE" -> 3
    [] stage = "ROUTE" -> 4
    [] stage = "RESPOND" -> 5
    [] stage = "ERROR" -> 6

Visited(stage) == \E i \in 1..Len(stages) : stages[i] = stage

\* The stages and the responses of a request at one moment.
StagesInOrder ==
  req # NoRequest =>
    /\ stages[1] = "START"
    /\ \A i \in 1..(Len(stages) - 1) :
         /\ Rank(stages[i]) < Rank(stages[i + 1])
         /\ stages[i] \notin {"RESPOND", "ERROR"}
    /\ Len(stages) >= 2 => stages[2] = "RATE_LIMIT_CHECK"
    /\ lastAuth # NoCall <=> Visited("AUTH_RESOLVE")
    /\ calls # <<>> <=> Visited("ROUTE")
    /\ (Visited("ROUTE") /\ req.route \in {"tournaments", "reviews", "audit"})
         => Visited("AUTH_RESOLVE")
    /\ (Visited("ROUTE") /\ req.route \in {"reviews", "audit"}) => principal # NoUser
    /\ Len(calls) <= 1
    /\ Len(resp) <= 1
    /\ Len(resp) = 1 <=> Last(stages) \in {"RESPOND", "ERROR"}

\* While a request is being handled its stages are only added to, and a
\* response once given is not taken back or followed by another.
StagesOnlyGrow ==
  (req # NoRequest /\ req' = req) =>
    /\ Len(stages') >= Len(stages)
    /\ SubSeq(stages', 1, Len(stages)) = stages
    /\ Len(resp') >= Len(resp)
    /\ SubSeq(resp', 1, Len(resp)) = resp

Failed ==
  \/ rateCall # NoCall /\ rateCall.raised
  \/ lastAuth # NoCall /\ lastAuth.status = "RedisError"
  \/ down # <<>> /\ down[1].kind = "response" /\ down[1].body = "text"

\* C11: an unanticipated failure in any stage (a store error under the rate
\* limit check included) is answered with the generic 500 that carries the
\* correlation id and no detail of the error, and no failure leaves
\* request_middleware as a raw exception.
C11_FailuresContained ==
  (req # NoRequest /\ Failed) =>
    /\ Len(resp) = 1
    /\ resp[1].status = 500
    /\ resp[1].content = [success |-> FALSE, code |-> "INTERNAL_ERROR",
                          message |-> "Internal server error",
                          request_id |-> req.request_id]
    /\ escaped = <<>>

\* C12: when the store is unreachable during the rate limit check the limiter
\* fails open: check_rate_limit admits the request, which goes on to auth and
\* routing instead of being rejected or failing.
C12_LimiterFailsOpen ==
  (req # NoRequest /\ rateCall # NoCall /\ rateCall.fault = "check") =>
    /\ rateCall.allowed
    /\ ~rateCall.raised
    /\ stages[3] # "ERROR"

\* C13: every terminal response, whatever its status, carries the correlation
\* id of the request (X-Request-ID) and the API version (X-API-Version) as
\* response headers.
C13_ResponseHeaders ==
  \A i \in 1..Len(resp) :
    /\ header_values(resp[i].headers, "X-Request-ID") = {req.request_id}
    /\ header_values(resp[i].headers, "X-API-Version") = {VERSION}

\* C14: a downstream transport failure (connect error, timeout) gives the
\* caller a 503 error response: the transport exception reaches neither the
\* caller nor the outside of the middleware, and the request does not end as a
\* 500.
C14_TransportFailureIs503 ==
  (req # NoRequest /\ down # <<>> /\ down[1].kind = "RequestError") =>
    /\ Len(resp) = 1
    /\ resp[1].status = 503
    /\ resp[1].content = [success |-> FALSE, code |-> "HTTP_ERROR",
                          message |-> "Service unavailable",
                          request_id |-> req.request_id]
    /\ escaped = <<>>
    /\ Last(stages) = "ERROR"

\* A forwarded request whose downstream call failed in transport.
C14_Witness ==
  /\ req # NoRequest
  /\ Len(calls) = 1
  /\ down # <<>> /\ down[1].kind = "RequestError"
  /\ Len(resp) = 1 /\ resp[1].status = 503

\* The downstream calls and outcomes of a request at one moment.
OneCall ==
  req # NoRequest =>
    /\ Len(calls) <= 1
    /\ Len(down) <= Len(calls)
    /\ (down # <<>> /\ down[1].kind = "RequestError") =>
         (Len(calls) = 1 /\ Len(resp) = 1 /\ resp[1].status = 503)

\* Once the downstream call has ended nothing more is sent for the request and
\* the response it was given stays the response.
NoCallAfterOutcome ==
  (req # NoRequest /\ down # <<>> /\ req' = req) =>
    (calls' = calls /\ down' = down /\ resp' = resp)

\* C15: an inbound request causes at most one downstream call: after a
\* downstream failure or timeout no further call is made for it and the 503 is
\* the final answer.
C15_AtMostOneCall == []OneCall /\ [][NoCallAfterOutcome]_vars

\* A request whose one downstream call failed and that was answered 503.
C15_Witness ==
  /\ req # NoRequest
  /\ Len(calls) = 1 /\ Len(down) = 1
  /\ down[1].kind = "RequestError"
  /\ resp # <<>> /\ resp[1].status = 503
  /\ Last(stages) = "ERROR"

C17_AuthFailureIs401 ==
  (/\ req # NoRequest
   /\ req.route \in {"reviews", "audit"}
   /\ lastAuth # NoCall) =>
    /\ lastAuth.status = "HTTPException" =>
         (Len(resp) = 1 /\ resp[1].status = 401 /\ calls = <<>>)
    /\ (resp # <<>> /\ resp[1].status = 403) => principal # NoUser

\* ------------------------------------------------------ the session manager
\* SessionManager.get_session(session_id) called on its own.
GetSession(session_id, fault) ==
  /\ lastAuth = NoCall
  /\ LET r == get_session(sessions, session_id, now, fault)
     IN  /\ sessions' = r.sessions
         /\ slog' = IF ~r.raised /\ r.data # NoSession
                      THEN [slog EXCEPT ![session_id].last = now] ELSE slog
         /\ lastAuth' = [fn |-> "get_session", session_id |-> session_id,
                         t |-> now, fault |-> fault,
                         raised |-> r.raised, data |-> r.data]
  /\ UNCHANGED <<now, rateVars, pipeVars, past, blacklist, sidsUsed, revoked>>

\* delete_session with a record of the call: the store and the history of the
\* session as they were when it was made.
SessionDeleteSession(session_id) ==
  /\ DeleteSession(session_id)
  /\ lastAuth' = [fn |-> "delete_session", session_id |-> session_id, t |-> now,
                  before |-> sessions, was |-> slog[session_id]]

\* The clock moves by a second, by half a session lifetime or by a whole one.
SessionSteps == {1, hours(SessionHours) \div 2, hours(SessionHours)}
SessionFaults == {"none", "get", "setex"}

NextSession ==
  \/ \E d \in SessionSteps : Advance(d)
  \/ \E u \in Subjects : CreateSession(u, Sids)
  \/ \E s \in Sids : SessionDeleteSession(s)
  \/ \E s \in Sids, fault \in SessionFaults : GetSession(s, fault)
  \/ Return

\* Sessions created, read and deleted over time.
SpecSession == InitAuth /\ [][NextSession]_vars

\* What a get_session made now would return is a session.
Retrievable(s) == get_session(sessions, s, now, "none").data # NoSession

\* C18: a session is retrievable by get_session at time t iff it was created,
\* has not been deleted and its most recent access (its creation or a get that
\* returned it) is at most 24 hours before t; a get that returned it leaves it
\* with the full 24 hours again, and a get that returned None (session deleted
\* or left untouched for longer than 24 hours) leaves no record behind.
C18_SessionLifetime ==
  /\ \A s \in Sids :
       Retrievable(s) <=> /\ slog[s].created
                          /\ ~slog[s].deleted
                          /\ now - slog[s].last <= hours(SessionHours)
  /\ (lastAuth # NoCall /\ lastAuth.fn = "get_session" /\ ~lastAuth.raised) =>
       IF lastAuth.data # NoSession
         THEN /\ sessions[lastAuth.session_id] # NoSession
              /\ sessions[lastAuth.session_id].expireAt = now + hours(SessionHours)
              /\ slog[lastAuth.session_id].last = now
         ELSE /\ sessions[lastAuth.session_id] = NoSession
              /\ ~Retrievable(lastAuth.session_id)

\* A get returns a session more than 24 hours after the session was created.
C18_Witness ==
  /\ lastAuth # NoCall
  /\ lastAuth.fn = "get_session"
  /\ lastAuth.data # NoSession
  /\ now - lastAuth.data.created_at > hours(SessionHours)

\* ------------------------------------------- the session manager, stepwise
\* Callers in several gateway processes; each Redis command is one step.
\* Caller p enters get_session(session_id) or delete_session(session_id).
SessionCall(p, fn, session_id) ==
  /\ pc[p] = "idle"
  /\ pc' = [pc EXCEPT ![p] = fn]
  /\ loc' = [loc EXCEPT ![p] = [fn |-> fn, session_id |-> session_id,
                                session_data |-> NoSession]]
  /\ UNCHANGED <<now, limit, window, rl, rlExpire, hist, authVars, pipeVars>>

\* session_data = redis_client.get(session_key); None is returned at once.
SessionGet(p) ==
  /\ pc[p] = "get_session"
  /\ LET session_data == session_at(sessions, loc[p].session_id, now)
     IN  /\ loc' = [loc EXCEPT ![p].session_data = session_data]
         /\ pc' = [pc EXCEPT ![p] = IF session_data # NoSession THEN "setex"
                                    ELSE "return"]
  /\ UNCHANGED <<now, limit, window, rl, rlExpire, hist, authVars, pipeVars>>

\* data["last_activity"] = utcnow(); redis_client.setex(session_key, 24h, data)
SessionSetex(p) ==
  /\ pc[p] = "setex"
  /\ LET data == [loc[p].session_data EXCEPT !.last_activity = now,
                                             !.expireAt = now + hours(SessionHours)]
     IN  /\ sessions' = [sessions EXCEPT ![loc[p].session_id] = data]
         /\ slog' = [slog EXCEPT ![loc[p].session_id].last = now]
         /\ loc' = [loc EXCEPT ![p].session_data = data]
  /\ pc' = [pc EXCEPT ![p] = "return"]
  /\ UNCHANGED <<now, limit, window, rl, rlExpire, hist, pipeVars,
                 past, blacklist, sidsUsed, revoked, lastAuth>>

\* redis_client.delete(session_key)
SessionDelete(p) ==
  /\ pc[p] = "delete_session"
  /\ sessions' = [sessions EXCEPT ![loc[p].session_id] = NoSession]
  /\ slog' = [slog EXCEPT ![loc[p].session_id].deleted = TRUE]
  /\ pc' = [pc EXCEPT ![p] = "return"]
  /\ UNCHANGED <<now, limit, window, rl, rlExpire, hist, loc, pipeVars,
                 past, blacklist, sidsUsed, revoked, lastAuth>>

\* The call of caller p returns.
SessionReturn(p) ==
  /\ pc[p] = "return"
  /\ pc' = [pc EXCEPT ![p] = "idle"]
  /\ loc' = [loc EXCEPT ![p] = NoLoc]
  /\ UNCHANGED <<now, limit, window, rl, rlExpire, hist, authVars, pipeVars>>

NextSessionConc ==
  \/ \E u \in Subjects : CreateSession(u, Sids)
  \/ \E p \in Procs, fn \in {"get_session", "delete_session"}, s \in Sids :
       SessionCall(p, fn, s)
  \/ \E p \in Procs : SessionGet(p)
  \/ \E p \in Procs : SessionSetex(p)
  \/ \E p \in Procs : SessionDelete(p)
  \/ \E p \in Procs : SessionReturn(p)

\* get_session and delete_session called concurrently.
SpecSessionConc == InitAuth /\ [][NextSessionConc]_vars

\* C19: get_session's read-and-extend is atomic with respect to a concurrent
\* delete_session of the same session: once a delete_session of session s has
\* taken effect and no call on s is still running, s is absent from the store
\* (a get that read s before the delete does not write it back).
C19_DeletedStaysAbsent ==
  \A s \in Sids :
    (/\ slog[s].deleted
     /\ \A p \in Procs : pc[p] # "idle" => loc[p].session_id # s)
      => session_at(sessions, s, now) = NoSession

\* ------------------------------------- the claims on the sequential limiter
\* The timestamps of a sorted set that lie inside the window [t - window, t].
Trailing(zs, t) == {e \in zs : t - window <= e.score /\ e.score <= t}

\* C20: with sequential callers and a fixed limit and window, after any
\* sequence of check_rate_limit and get_rate_limit_info calls the timestamps
\* recorded for a key inside the trailing window are never more than `limit`:
\* in the set every call left behind, and in the store at every later instant.
C20_WindowWithinLimit ==
  /\ \A i \in 1..Len(hist) : Cardinality(Trailing(hist[i].after, hist[i].t)) <= limit
  /\ \A k \in Keys : Cardinality(Trailing(Live(rl[k], rlExpire[k], now), now)) <= limit

\* A key holds `limit` timestamps of different seconds inside the window and a
\* check_rate_limit on it was rejected, after a get_rate_limit_info on it.
C20_Witness ==
  \E i \in 1..Len(hist) :
    /\ hist[i].op = "check"
    /\ ~hist[i].res
    /\ limit >= 2
    /\ Cardinality(Trailing(hist[i].after, hist[i].t)) = limit
    /\ \E j \in 1..(i - 1) : hist[j].op = "info" /\ hist[j].key = hist[i].key

\* Call i is a rejected check_rate_limit and call j the next check_rate_limit
\* on the same key, made more than `window` seconds later.
NextCheckAfterSilence(i, j) ==
  /\ i < j
  /\ hist[i].op = "check" /\ ~hist[i].res
  /\ hist[j].op = "check" /\ hist[j].key = hist[i].key
  /\ \A m \in (i + 1)..(j - 1) : ~(hist[m].op = "check" /\ hist[m].key = hist[i].key)
  /\ hist[j].t - hist[i].t > window

\* C21: after a check_rate_limit on a key was rejected, if no check_rate_limit
\* is made on that key for more than `window` seconds, the next
\* check_rate_limit on that key is admitted.
C21_AdmittedAfterSilence ==
  \A i, j \in 1..Len(hist) : NextCheckAfterSilence(i, j) => hist[j].res

\* A saturated key was left alone for more than `window` seconds and checked
\* again.
C21_Witness ==
  \E i, j \in 1..Len(hist) : NextCheckAfterSilence(i, j) /\ hist[i].after # {}

\* The timestamps of a sorted set that a call at time t does not evict.
Unexpired(zs, t) == {e \in zs : e.score > t - window}

\* Call a is an admitted check_rate_limit and call j a later check_rate_limit
\* on the same key, with no admitted one on that key in between.
LastAdmittedBefore(a, j) ==
  /\ a < j
  /\ hist[a].op = "check" /\ hist[a].res
  /\ hist[j].op = "check" /\ hist[j].key = hist[a].key
  /\ \A m \in (a + 1)..(j - 1) :
       ~(hist[m].op = "check" /\ hist[m].key = hist[a].key /\ hist[m].res)

\* The rejected calls on the key of call a made between calls a and j.
RejectedBetween(a, j) ==
  {m \in (a + 1)..(j - 1) :
     hist[m].op = "check" /\ hist[m].key = hist[a].key /\ ~hist[m].res}

\* C22: a rejected check_rate_limit records no new entry: the unexpired
\* timestamps of the key are the same after the call as before it, and
\* rejected calls never postpone the next admission (a call made `window`
\* seconds or more after the last admitted one is admitted, however many
\* rejected calls lie in between).
C22_RejectedRecordsNothing ==
  /\ \A i \in 1..Len(hist) :
       (hist[i].op = "check" /\ ~hist[i].res) =>
         /\ hist[i].after \subseteq hist[i].before
         /\ Unexpired(hist[i].after, hist[i].t) = Unexpired(hist[i].before, hist[i].t)
  /\ \A a, j \in 1..Len(hist) :
       (LastAdmittedBefore(a, j) /\ hist[j].t - hist[a].t >= window) => hist[j].res

\* A call is admitted `window` seconds after the last admitted one, with a
\* rejected call of another second in between.
C22_Witness ==
  \E a, j \in 1..Len(hist) :
    /\ LastAdmittedBefore(a, j)
    /\ hist[j].t - hist[a].t >= window
    /\ hist[j].res
    /\ \E m \in RejectedBetween(a, j) : hist[m].t > hist[a].t /\ hist[m].before # {}

\* get_rate_limit_info call i inserted nothing and reported what is left of
\* the limit.
InfoReadsOnly(i) ==
  /\ hist[i].after \subseteq hist[i].before
  /\ Unexpired(hist[i].after, hist[i].t) = Unexpired(hist[i].before, hist[i].t)
  /\ LET n == Cardinality(Unexpired(hist[i].before, hist[i].t))
     IN  hist[i].remaining = IF limit - n > 0 THEN limit - n ELSE 0

\* A check_rate_limit made at any time from call i on answers the same on the
\* set call i left as on the set call i found.
InfoChangesNoResult(i) ==
  \A t \in hist[i].t..MaxTime :
    check_rate_limit(hist[i].after, NoExpiry, limit, window, t).res
      = check_rate_limit(hist[i].before, NoExpiry, limit, window, t).res

\* C23: get_rate_limit_info never inserts an entry: it leaves the unexpired
\* timestamps of the key unchanged, reports remaining = max(0, limit - entries
\* in the window), reports remaining = 0 when it comes after `limit`
\* admissions within the window, and does not change the result of a later
\* check_rate_limit.
C23_InfoIsReadOnly ==
  \A i \in 1..Len(hist) :
    hist[i].op = "info" =>
      /\ InfoReadsOnly(i)
      /\ InfoChangesNoResult(i)
      /\ Cardinality(AdmittedBefore(i)) >= limit => hist[i].remaining = 0

\* ------------------------------------------- more claims on the resolver
\* C24: a refresh token presented to get_current_user is always rejected with
\* 401 and never yields a Principal; when it is validly signed, unexpired and
\* not revoked, it is rejected for its kind ("Invalid token type"), before the
\* session store is touched.
C24_RefreshRejected ==
  (IsCall("get_current_user") /\ lastAuth.cred.token.type = "refresh") =>
    /\ lastAuth.status = "HTTPException"
    /\ lastAuth.code = 401
    /\ lastAuth.user = NoUser
    /\ ~lastAuth.touched
    /\ (NotRevoked(lastAuth) /\ SignedUnexpired(lastAuth) /\ lastAuth.fault # "exists")
         => lastAuth.detail = "Invalid token type"

\* A signed, unexpired, unrevoked refresh token with all claims present was
\* presented.
C24_Witness ==
  /\ IsCall("get_current_user")
  /\ lastAuth.cred.token.type = "refresh"
  /\ NotRevoked(lastAuth) /\ SignedUnexpired(lastAuth) /\ ClaimsPresent(lastAuth)
  /\ lastAuth.fault = "none"
  /\ lastAuth.detail = "Invalid token type"

\* ------------------------------------------------------ the token manager
\* TokenManager.verify_token(token) called on its own.
VerifyToken(cred) ==
  /\ lastAuth = NoCall
  /\ LET r == verify_token(cred, now)
     IN  lastAuth' = [fn |-> "verify_token", cred |-> cred, t |-> now,
                      status |-> IF r = "ok" THEN "ok" ELSE "HTTPException",
                      code |-> IF r = "ok" THEN 200 ELSE 401,
                      detail |-> IF r = "ok" THEN "" ELSE r,
                      payload |-> IF r = "ok" THEN cred.token ELSE NoToken]
  /\ UNCHANGED <<now, rateVars, pipeVars, past, blacklist, sessions, sidsUsed,
                 revoked, slog>>

\* TokenManager.create_access_token(data, expires_delta) called on its own.
CreateAccessToken(data, expires_delta) ==
  /\ lastAuth = NoCall
  /\ lastAuth' = [fn |-> "create_access_token", data |-> data,
                  expires_delta |-> expires_delta, t |-> now,
                  token |-> create_access_token(data, expires_delta, now)]
  /\ UNCHANGED <<now, rateVars, pipeVars, past, blacklist, sessions, sidsUsed,
                 revoked, slog>>

\* TokenManager.create_refresh_token(data) called on its own.
CreateRefreshToken(data) ==
  /\ lastAuth = NoCall
  /\ lastAuth' = [fn |-> "create_refresh_token", data |-> data,
                  expires_delta |-> NoDelta, t |-> now,
                  token |-> create_refresh_token(data, now)]
  /\ UNCHANGED <<now, rateVars, pipeVars, past, blacklist, sessions, sidsUsed,
                 revoked, slog>>

\* The claims callers hand to issuance: with and without a kind, an issue time
\* and an expiry of their own.
IssueData ==
  [sub : {"u1"}, email : {"u1@x.org"}, role : {"admin", "viewer"},
   session_id : {Absent}, jti : {Absent, "j1"},
   type : {Absent, "access", "refresh"}, iat : {NoTime, 7}, exp : {NoTime, 7}]
TokenSteps == {1, minutes(JWT_ACCESS_TOKEN_EXPIRE_MINUTES)}
TokenCreds == RevokeCreds

TokenVerifyToken ==
  /\ lastAuth = NoCall
  /\ \E cred \in TokenCreds : VerifyToken(cred)

\* blacklist_token called and its effect on the store kept for the caller.
TokenBlacklistToken ==
  /\ lastAuth = NoCall
  /\ \E cred \in TokenCreds, fault \in BOOLEAN :
       /\ BlacklistToken(cred, fault, FALSE)
       /\ lastAuth' = [fn |-> "blacklist_token", cred |-> cred, t |-> now,
                       fault |-> fault, before |-> blacklist]

TokenGetCurrentUser ==
  /\ lastAuth = NoCall
  /\ \E cred \in TokenCreds, fault \in {"none", "exists"} : GetCurrentUser(cred, fault)

TokenCreateAccessToken ==
  /\ lastAuth = NoCall
  /\ \E data \in IssueData, delta \in ExpiresDeltas : CreateAccessToken(data, delta)

TokenCreateRefreshToken ==
  /\ lastAuth = NoCall
  /\ \E data \in IssueData : CreateRefreshToken(data)

NextToken ==
  \/ \E d \in TokenSteps : Advance(d)
  \/ TokenVerifyToken
  \/ TokenBlacklistToken
  \/ TokenGetCurrentUser
  \/ TokenCreateAccessToken
  \/ TokenCreateRefreshToken
  \/ Return

\* Issuance and verification of tokens over time.
SpecToken == InitAuth /\ [][NextToken]_vars

\* ------------------------------------------- the claims on the token manager
\* verify_token answered a token that does not decode with "Invalid token".
InvalidAlways(c) ==
  ~c.cred.signed =>
    (c.status = "HTTPException" /\ c.code = 401 /\ c.detail = "Invalid token")

\* C25 as stated: for a validly signed token verify_token succeeds at every
\* time now <= expires_at and fails with Expired exactly when now > expires_at;
\* for a token that does not decode it fails with Invalid at every time.
C25_VerifyUpToExpiry ==
  IsCall("verify_token") =>
    /\ InvalidAlways(lastAuth)
    /\ lastAuth.cred.signed =>
         /\ lastAuth.t <= lastAuth.cred.token.exp => lastAuth.status = "ok"
         /\ lastAuth.detail = "Token has expired" <=> lastAuth.t > lastAuth.cred.token.exp

\* C25 (amended): for a validly signed token verify_token succeeds, returning
\* the payload, at every time now < expires_at and fails with Expired (401)
\* exactly when now >= expires_at; for a token that does not decode it fails
\* with Invalid (401) at every time.
C25_VerifyBeforeExpiry ==
  IsCall("verify_token") =>
    /\ InvalidAlways(lastAuth)
    /\ lastAuth.cred.signed =>
         /\ lastAuth.t < lastAuth.cred.token.exp =>
              (lastAuth.status = "ok" /\ lastAuth.payload = lastAuth.cred.token)
         /\ (lastAuth.status = "HTTPException" /\ lastAuth.code = 401
               /\ lastAuth.detail = "Token has expired")
              <=> lastAuth.t >= lastAuth.cred.token.exp
         /\ lastAuth.status \in {"ok", "HTTPException"}

\* A validly signed token is verified at the very second of its exp.
C25_Witness ==
  /\ IsCall("verify_token")
  /\ lastAuth.cred.signed
  /\ lastAuth.t = lastAuth.cred.token.exp
  /\ lastAuth.detail = "Token has expired"

\* The issued token carries the caller's claims other than kind, issue time and
\* expiry as they were supplied.
OtherClaimsKept(c) ==
  /\ c.token.sub = c.data.sub /\ c.token.email = c.data.email
  /\ c.token.role = c.data.role /\ c.token.session_id = c.data.session_id
  /\ c.token.jti = c.data.jti

\* C26: a token issued by create_access_token has kind access and expires_at =
\* issue time + access lifetime (30 minutes unless the caller gives one), one
\* issued by create_refresh_token has kind refresh and expires_at = issue time
\* + 7 days, and both have issued_at = issue time, whatever kind, issued_at or
\* expires_at the supplied claims contain.
C26_IssuanceStamps ==
  /\ IsCall("create_access_token") =>
       /\ lastAuth.token.type = "access"
       /\ lastAuth.token.iat = lastAuth.t
       /\ lastAuth.token.exp = lastAuth.t +
            (IF lastAuth.expires_delta # NoDelta THEN lastAuth.expires_delta
             ELSE minutes(JWT_ACCESS_TOKEN_EXPIRE_MINUTES))
       /\ OtherClaimsKept(lastAuth)
  /\ IsCall("create_refresh_token") =>
       /\ lastAuth.token.type = "refresh"
       /\ lastAuth.token.iat = lastAuth.t
       /\ lastAuth.token.exp = lastAuth.t + days(JWT_REFRESH_TOKEN_EXPIRE_DAYS)
       /\ OtherClaimsKept(lastAuth)

\* An access token was issued, after the clock moved, from claims that said
\* kind refresh and carried an issue time and an expiry of their own.
C26_Witness ==
  /\ IsCall("create_access_token")
  /\ lastAuth.t > 0
  /\ lastAuth.data.type = "refresh"
  /\ lastAuth.data.iat # NoTime /\ lastAuth.data.exp # NoTime
  /\ lastAuth.token.type = "access"

\* The records the call wrote: those in the store now that were not there
\* before the call.
Written(c) == blacklist \ c.before

\* C27: blacklist_token on a token that has already expired is a no-op: no
\* record is inserted, the store is left as it was and nothing is raised; a
\* record is inserted only under the token's revocation key with a strictly
\* positive time to live equal to expires_at - now, and nothing else in the
\* store changes.
C27_ExpiredRevokeIsNoOp ==
  IsCall("blacklist_token") =>
    LET c == lastAuth
    IN  /\ c.cred.token.exp <= c.t => blacklist = c.before
        /\ \A r \in Written(c) :
             /\ r.key = blacklist_key(c.cred)
             /\ r.expireAt - c.t > 0
             /\ r.expireAt - c.t = c.cred.token.exp - c.t
        /\ \A r \in c.before \ blacklist :
             r.key = blacklist_key(c.cred) /\ Written(c) # {}

\* blacklist_token was given a signed token at or after its exp while the store
\* held a record.
C27_Witness ==
  /\ IsCall("blacklist_token")
  /\ lastAuth.cred.signed /\ ~lastAuth.fault
  /\ lastAuth.cred.token.exp <= lastAuth.t
  /\ lastAuth.before # {}
  /\ blacklist = lastAuth.before

\* Every check of the resolution passes for the token of call c.
AllChecksPass(c) ==
  /\ NotRevoked(c) /\ SignedUnexpired(c) /\ KindAccess(c)
  /\ ClaimsPresent(c) /\ SessionBound(c) /\ LookupsAnswered(c)

\* C28: the permission set of a resolved Principal is exactly the entry of the
\* static role table for the token's role (a viewer has tournament:view and
\* lacks tournament:create); a role that is not in the table yields a Principal
\* with an empty permission set, not a failed resolution.
C28_PermissionsFromRoleTable ==
  IsCall("get_current_user") =>
    LET c == lastAuth
        role == c.cred.token.role
    IN  /\ c.user # NoUser =>
             /\ role \in DOMAIN ROLE_PERMISSIONS =>
                  c.user.permissions = ROLE_PERMISSIONS[role]
             /\ role \notin DOMAIN ROLE_PERMISSIONS => c.user.permissions = {}
             /\ role = "viewer" =>
                  /\ has_permission(c.user, "tournament:view")
                  /\ ~has_permission(c.user, "tournament:create")
        /\ (AllChecksPass(c) /\ role \notin DOMAIN ROLE_PERMISSIONS) =>
             (c.status = "ok" /\ c.user # NoUser)

\* A token with a role the table does not know was resolved.
C28_Witness ==
  /\ IsCall("get_current_user")
  /\ lastAuth.user # NoUser
  /\ lastAuth.cred.token.role \notin DOMAIN ROLE_PERMISSIONS
  /\ lastAuth.user.permissions = {}

\* C29: when the revocation store cannot be read during a resolution the token
\* is treated as revoked: get_current_user rejects with 401 ("Token has been
\* revoked" for a token that decodes), returns no Principal and does not go on
\* to the session store.
C29_RevocationFailsClosed ==
  (IsCall("get_current_user") /\ lastAuth.fault = "exists") =>
    /\ lastAuth.status = "HTTPException"
    /\ lastAuth.code = 401
    /\ lastAuth.user = NoUser
    /\ lastAuth.cred.signed => lastAuth.detail = "Token has been revoked"
    /\ ~lastAuth.touched

\* The revocation lookup failed for a token that passes every other check and
\* has no revocation record.
C29_Witness ==
  /\ IsCall("get_current_user")
  /\ lastAuth.fault = "exists"
  /\ NotRevoked(lastAuth) /\ SignedUnexpired(lastAuth) /\ KindAccess(lastAuth)
  /\ ClaimsPresent(lastAuth) /\ SessionBound(lastAuth)
  /\ lastAuth.code = 401

\* get_current_user would return a Principal for the token of call c at time t,
\* with the stores as they are now.
AcceptedAt(c, store, t) ==
  get_current_user(c.cred, store, sessions, t, "none").status = "ok"

\* C30: a failure to write the revocation record does not reach the caller of
\* blacklist_token: the call returns, the store is as it was before the call,
\* and a token that get_current_user accepted before the call stays accepted
\* at every time before its exp.
C30_WriteFailureSwallowed ==
  (IsCall("blacklist_token") /\ lastAuth.fault) =>
    /\ blacklist = lastAuth.before
    /\ AcceptedAt(lastAuth, lastAuth.before, lastAuth.t) =>
         \A t \in lastAuth.t..(lastAuth.cred.token.exp - 1) :
           AcceptedAt(lastAuth, blacklist, t)

\* The write failed for a token that was accepted and has time left.
C30_Witness ==
  /\ IsCall("blacklist_token")
  /\ lastAuth.fault
  /\ lastAuth.t > 0
  /\ lastAuth.t + 1 < lastAuth.cred.token.exp
  /\ AcceptedAt(lastAuth, lastAuth.before, lastAuth.t)
  /\ AcceptedAt(lastAuth, blacklist, lastAuth.cred.token.exp - 1)

\* ----------------------------------------------- proxy_to_service, called directly
\* A path is a string, modelled by its characters; "/" is the one that matters.
PathChars == {"/", "a"}
Paths == {<<>>} \cup [1..1 -> PathChars] \cup [1..2 -> PathChars]
          \cup {<<"/", "/", "a">>}

\* path.lstrip('/')
RECURSIVE lstrip(_)
lstrip(path) ==
  IF path # <<>> /\ Head(path) = "/" THEN lstrip(Tail(path)) ELSE path

\* target_url = f"{service_url}/{path.lstrip('/')}"
target_url_verbatim(service_url, path) == <<service_url, "/">> \o path

target_url(service_url, path) == <<service_url, "/">> \o lstrip(path)

\* The request a direct call of proxy_to_service is given.
ProxyRequest ==
  [route |-> "direct", client |-> "ip1", user_agent |-> "ua", headers |-> <<>>,
   cred |-> NoCred, request_id |-> <<"uuid4", 0>>]

\* proxy_to_service(request, service, path) up to http_client.request: the
\* lookup of the service, the 404 for a name SERVICE_URLS does not hold, the
\* target url and the request sent downstream.
ProxyToService(service, path) ==
  /\ lastAuth = NoCall
  /\ lastAuth' = [fn |-> "proxy_to_service", service |-> service, path |-> path]
  /\ IF service \notin DOMAIN SERVICE_URLS
       THEN /\ resp' = <<[raised |-> "HTTPException", status |-> 404]>>
            /\ UNCHANGED calls
       ELSE /\ calls' = <<[service |-> service,
                           url |-> target_url(SERVICE_URLS[service], path),
                           headers |-> forward_headers(ProxyRequest, NoUser)]>>
            /\ UNCHANGED resp
  /\ UNCHANGED <<now, rateVars, past, blacklist, sessions, sidsUsed, revoked, slog,
                 req, stages, rateCall, metrics, served, down, escaped, tournaments>>

\* http_client.request ends and proxy_to_service returns or raises.
ProxyReturns(outcome) ==
  /\ IsCall("proxy_to_service")
  /\ calls # <<>>
  /\ resp = <<>>
  /\ down' = <<outcome>>
  /\ resp' = IF proxy_result(outcome) = "HTTPException"
               THEN <<[raised |-> "HTTPException", status |-> 503]>>
             ELSE IF proxy_result(outcome) = "Exception"
               THEN <<[raised |-> "Exception", status |-> 500]>>
             ELSE <<[raised |-> "none", status |-> outcome.status]>>
  /\ UNCHANGED <<now, rateVars, authVars, req, stages, rateCall, calls, metrics,
                 served, escaped, tournaments>>

\* The caller has the result; the next call may be made.
ProxyDone ==
  /\ IsCall("proxy_to_service")
  /\ resp # <<>>
  /\ lastAuth' = NoCall
  /\ calls' = <<>>
  /\ resp' = <<>>
  /\ down' = <<>>
  /\ UNCHANGED <<now, rateVars, past, blacklist, sessions, sidsUsed, revoked, slog,
                 req, stages, rateCall, metrics, served, escaped, tournaments>>

\* Names callers may pass: those of SERVICE_URLS and some it does not hold.
ProxyServices == DOMAIN SERVICE_URLS \cup {"payment", "tournaments", ""}

NextProxy ==
  \/ \E service \in ProxyServices, path \in Paths : ProxyToService(service, path)
  \/ \E outcome \in DownstreamOutcomes : ProxyReturns(outcome)
  \/ ProxyDone

SpecProxy == InitRL /\ [][NextProxy]_vars

\* C31: proxy_to_service called with a service name that SERVICE_URLS does not
\* hold raises the 404 HTTPException and sends no request downstream; called
\* with a name it holds, the one request it sends goes to the base url of that
\* name, a "/", and the path without its leading slashes.
C31_UnknownServiceNotFound ==
  IsCall("proxy_to_service") =>
    IF lastAuth.service \in DOMAIN SERVICE_URLS
      THEN /\ Len(calls) = 1
           /\ \E n \in 0..Len(lastAuth.path) :
                /\ \A i \in 1..n : lastAuth.path[i] = "/"
                /\ n < Len(lastAuth.path) => lastAuth.path[n + 1] # "/"
                /\ calls[1].url = <<SERVICE_URLS[lastAuth.service], "/">>
                                    \o SubSeq(lastAuth.path, n + 1, Len(lastAuth.path))
      ELSE /\ calls = <<>>
           /\ down = <<>>
           /\ resp = <<[raised |-> "HTTPException", status |-> 404]>>

\* A name SERVICE_URLS does not hold was turned away.
C31_Witness ==
  /\ IsCall("proxy_to_service")
  /\ lastAuth.service = "payment"
  /\ lastAuth.path = <<"/", "/", "a">>
  /\ resp # <<>>
  /\ resp[1].status = 404
  /\ calls = <<>>

\* C32: when the downstream call ends with a response, whatever its status
\* and its body, the response the gateway gives the caller has the status of
\* the downstream response.
C32_StatusRelayed ==
  (req # NoRequest /\ down # <<>> /\ Last(down).kind = "response" /\ resp # <<>>) =>
    Last(resp).status = Last(down).status

\* The samples of one metric among those a request recorded.
samples(metric) == {i \in 1..Len(metrics) : metrics[i].metric = metric}

\* C33: a request that has its terminal response, whatever its status, is
\* recorded exactly once in the request count, labelled with its path and
\* the status of that response, and has its duration observed.
C33_EveryResponseMeasured ==
  (req # NoRequest /\ Last(stages) \in {"RESPOND", "ERROR"}) =>
    /\ Len(resp) = 1
    /\ \E i \in 1..Len(metrics) : metrics[i] = count_sample(req, resp[1].status)
    /\ Cardinality(samples("http_requests_total")) = 1
    /\ Cardinality(samples("http_request_duration_seconds")) = 1

\* The sessions of a store that get_session would find at time t.
live_sessions(sess, t) == [s \in Sids |-> session_at(sess, s, t)]

\* C34: delete_session of an id that resolves to no session (never created,
\* deleted before, or expired) returns with the store as it was; and whatever
\* id it is given, it leaves every other session as it was and the id
\* resolving to nothing.
C34_DeleteIdempotent ==
  IsCall("delete_session") =>
    /\ \A o \in Sids \ {lastAuth.session_id} : sessions[o] = lastAuth.before[o]
    /\ ~Retrievable(lastAuth.session_id)
    /\ session_at(lastAuth.before, lastAuth.session_id, lastAuth.t) = NoSession =>
         live_sessions(sessions, now) = live_sessions(lastAuth.before, now)

\* A session already deleted is deleted again while another session is live.
C34_Witness ==
  /\ IsCall("delete_session")
  /\ lastAuth.was.created
  /\ lastAuth.was.deleted
  /\ \E o \in Sids \ {lastAuth.session_id} : Retrievable(o)

\* C35: blacklist_token of one token leaves every other token as it was: a
\* distinct token that is signed, unexpired and was not revoked before the
\* call is not revoked after it, and still resolves if it resolved before.
C35_RevocationIsPerToken ==
  IsCall("blacklist_token") =>
    \A other \in TokenCreds \ {lastAuth.cred} :
      (/\ other.signed
       /\ other.token # lastAuth.cred.token
       /\ other.token.exp > lastAuth.t
       /\ ~is_token_blacklisted(other, lastAuth.before, lastAuth.t, FALSE)) =>
        /\ ~is_token_blacklisted(other, blacklist, lastAuth.t, FALSE)
        /\ get_current_user(other, lastAuth.before, sessions, lastAuth.t, "none").status = "ok"
             => get_current_user(other, blacklist, sessions, lastAuth.t, "none").status = "ok"

\* ------------------------------------------------- /auth/login, /auth/logout
\* login: the claims the mock user is given.
login_token_data ==
  [sub |-> "admin-user-id", email |-> "admin@tournament.com", role |-> "admin",
   session_id |-> Absent, jti |-> Absent, type |-> Absent, iat |-> NoTime,
   exp |-> NoTime]

\* login(credentials) at time t: the status and the tokens of the response.
login(email, password, t) ==
  IF email = Absent \/ password = Absent
    THEN [status |-> 400, access_token |-> NoToken, refresh_token |-> NoToken]
  ELSE IF email = "admin@tournament.com" /\ password = "admin123"
    THEN [status |-> 200,
          access_token |-> create_access_token(login_token_data, NoDelta, t),
          refresh_token |-> create_refresh_token(login_token_data, t)]
  ELSE [status |-> 401, access_token |-> NoToken, refresh_token |-> NoToken]

\* POST /auth/login: the client keeps the response.
Login(email, password) ==
  /\ lastAuth = NoCall
  /\ resp' = <<login(email, password, now)>>
  /\ lastAuth' = [fn |-> "login", email |-> email, t |-> now,
                  status |-> login(email, password, now).status]
  /\ UNCHANGED <<now, rateVars, past, blacklist, sessions, sidsUsed, revoked, slog,
                 req, stages, rateCall, calls, metrics, served, down, escaped, tournaments>>

\* logout(current_user): the session the principal is bound to is deleted,
\* if it is bound to one.
logout(user, sess) ==
  IF user.session_id # Absent THEN delete_session(sess, user.session_id) ELSE sess

\* POST /auth/logout with the bearer credentials cred: the dependency
\* get_current_user, then the handler.  revoked keeps the token of a logout
\* that was answered 200.
Logout(cred) ==
  /\ lastAuth = NoCall
  /\ LET r == solve_dependencies("reviews", cred, "none").r
     IN  /\ lastAuth' = [fn |-> "logout", cred |-> cred, t |-> now,
                         status |-> r.status, code |-> r.code]
         /\ IF r.status = "ok"
              THEN /\ sessions' = logout(r.user, r.sessions)
                   /\ slog' = IF r.user.session_id # Absent
                                THEN [accessed(slog, sessions, r.sessions, now)
                                        EXCEPT ![r.user.session_id].deleted = TRUE]
                                ELSE slog
                   /\ revoked' = cred.token
              ELSE /\ sessions' = r.sessions
                   /\ slog' = accessed(slog, sessions, r.sessions, now)
                   /\ UNCHANGED revoked
  /\ UNCHANGED <<now, rateVars, pipeVars, past, blacklist, sidsUsed>>

\* What a client of the gateway can present: the tokens of its login, with or
\* without a signature that verifies, a token bound to a session, or nothing.
LoginEmails == {Absent, "admin@tournament.com", "eve@x.org"}
LoginPasswords == {Absent, "admin123", "guess"}
LoginCreds ==
  {NoCred}
    \cup (IF resp # <<>> /\ resp[1].status = 200
            THEN [token : {resp[1].access_token, resp[1].refresh_token},
                  signed : BOOLEAN]
            ELSE {})
    \cup {[token |-> create_access_token([login_token_data EXCEPT !.session_id = s],
                                         NoDelta, t),
           signed |-> TRUE] : s \in AuthSids, t \in past}

LoginLogout ==
  /\ lastAuth = NoCall
  /\ \E cred \in LoginCreds : Logout(cred)

LoginGetCurrentUser ==
  /\ lastAuth = NoCall
  /\ \E cred \in LoginCreds \ {NoCred} : GetCurrentUser(cred, "none")

NextLogin ==
  \/ \E d \in RevokeSteps : Advance(d)
  \/ \E email \in LoginEmails, password \in LoginPasswords : Login(email, password)
  \/ CreateSession("admin-user-id", AuthSids)
  \/ LoginLogout
  \/ LoginGetCurrentUser
  \/ Return

\* Clients logging in, making requests and logging out over time.
SpecLogin == InitAuth /\ [][NextLogin]_vars

\* The access token of a login.
IssuedByLogin(token) ==
  \E t \in past : token = create_access_token(login_token_data, NoDelta, t)

\* C36: once a logout with the access token of a login was answered 200, no
\* later get_current_user with that token returns a Principal.
C36_LoggedOutTokenRejected ==
  (/\ IsCall("get_current_user")
   /\ revoked # NoToken
   /\ IssuedByLogin(revoked)
   /\ lastAuth.cred # NoCred
   /\ lastAuth.cred.signed
   /\ lastAuth.cred.token = revoked) =>
    lastAuth.status # "ok"

\* Call j of the history counted the entry that the admitted call i recorded.
Counts(j, i) == \E e \in hist[j].after : e.score = hist[i].t

\* C37: the entry an admitted check_rate_limit recorded at time t is counted
\* by every later check_rate_limit and get_rate_limit_info on the key at
\* every time up to and including t + window, and by none after that.
C37_CountedThroughWindow ==
  \A i \in 1..Len(hist) : \A j \in (i + 1)..Len(hist) :
    (hist[i].op = "check" /\ hist[i].res /\ hist[j].key = hist[i].key) =>
      IF hist[j].t <= hist[i].t + window THEN Counts(j, i) ELSE ~Counts(j, i)

\* ------------------------------------------------------ the pipeline, scheduled
\* The event loop runs every stage of a request that is not waiting, and
\* http_client = httpx.AsyncClient(timeout=30.0) ends every downstream call:
\* with the response or with a timeout, which is an httpx.RequestError.
PipeStep ==
  \/ \E fault \in FaultPoints : AuthResolve(fault)
  \/ Route
  \/ \E outcome \in DownstreamOutcomes : DownstreamReturns(outcome)

\* Clients with and without an access token, on every kind of route.
LiveCreds ==
  {c \in PipeCreds : c = NoCred \/ (c.signed /\ c.token.type = "access"
                                                /\ c.token.session_id = Absent)}

LiveReceive ==
  /\ req = NoRequest
  /\ \E route \in PipeRoutes, cred \in LiveCreds : Receive(route, "ip1", <<>>, cred)

NextPipeLive ==
  \/ Tick
  \/ LiveReceive
  \/ \E fault \in RateFaults : RateLimitCheck(fault)
  \/ PipeStep
  \/ Finish

\* At most one stage of the request is enabled at a time, so weak fairness of
\* their disjunction is weak fairness of each.
InitLive == InitRL /\ limit = MaxLimit /\ window = MaxWindow

SpecPipeFair == InitLive /\ [][NextPipeLive]_vars /\ WF_vars(PipeStep)

\* The rate limiter admitted request n; request n has its terminal response.
Admitted(n) ==
  /\ req # NoRequest /\ served = n
  /\ rateCall # NoCall /\ rateCall.allowed /\ ~rateCall.raised

Answered(n) ==
  /\ req # NoRequest /\ served = n
  /\ Last(stages) \in {"RESPOND", "ERROR"}
  /\ Len(resp) = 1

\* C38: every request the rate limiter admits eventually has its terminal
\* response, given that each downstream call ends with a response or with
\* its timeout; and a request whose downstream call timed out is answered 503.
C38_AdmittedIsAnswered ==
  /\ \A n \in 1..MaxRequests : Admitted(n) ~> Answered(n)
  /\ [](\A n \in 1..MaxRequests :
          (Admitted(n) /\ down # <<>> /\ Last(down).kind = "RequestError") =>
            (Answered(n) /\ resp[1].status = 503))

\* An admitted request waited for its downstream call, the call timed out and
\* the request was answered 503.
C38_Witness ==
  /\ Admitted(1)
  /\ Answered(1)
  /\ Len(calls) = 1
  /\ down # <<>> /\ Last(down).kind = "RequestError"
  /\ resp[1].status = 503

\* C39: get_current_user keeps a malformed token apart from a revoked one: a
\* token whose signature does not verify and for which the store holds no
\* revocation record is rejected with 401 "Invalid token", and "Token has
\* been revoked" is the answer only for tokens the store holds a record for.
C39_InvalidIsNotRevoked ==
  (IsCall("get_current_user") /\ lastAuth.fault = "none") =>
    /\ (~lastAuth.cred.signed /\ ~lastAuth.hadRecord) =>
         (lastAuth.code = 401 /\ lastAuth.detail = "Invalid token")
    /\ lastAuth.detail = "Token has been revoked" => lastAuth.hadRecord

\* ------------------------------------------------------- the tournament API
\* class TournamentStatus(str, Enum)
TournamentStatus == {"deploying", "active", "paused", "ended", "cancelled"}

\* class TournamentUpdate: the request bodies of PUT.  A field left out of the
\* body is Unset (dict(exclude_unset=True) skips it); status may be sent as
\* null, which is Absent.
Unset == "unset"
TournamentUpdates ==
  [name : {Unset, "cup2"}, status : {Unset, Absent} \cup TournamentStatus]

\* create_tournament: the new row.
create_tournament(store, id, name) ==
  [code |-> 201,
   store |-> [store EXCEPT ![id] = [name |-> name, status |-> "deploying"]]]

\* update_tournament: every field of the body is set on the row; the response
\* model is built inside the transaction, and TournamentStatus(None) raising
\* there rolls the transaction back.
update_tournament(store, id, update) ==
  IF store[id] = NoTournament THEN [code |-> 404, store |-> store]
  ELSE LET row == [name |-> IF update.name # Unset THEN update.name
                            ELSE store[id].name,
                   status |-> IF update.status # Unset THEN update.status
                              ELSE store[id].status]
       IN  IF row.status \notin TournamentStatus
             THEN [code |-> 500, store |-> store]
             ELSE [code |-> 200, store |-> [store EXCEPT ![id] = row]]

\* deploy_tournament: the background task it starts writes no status.
deploy_tournament(store, id) ==
  IF store[id] = NoTournament THEN [code |-> 404, store |-> store]
  ELSE IF store[id].status # "deploying" THEN [code |-> 400, store |-> store]
  ELSE [code |-> 200, store |-> store]

\* pause_tournament
pause_tournament(store, id) ==
  IF store[id] = NoTournament THEN [code |-> 404, store |-> store]
  ELSE IF store[id].status # "active" THEN [code |-> 400, store |-> store]
  ELSE [code |-> 200, store |-> [store EXCEPT ![id].status = "paused"]]

\* resume_tournament
resume_tournament(store, id) ==
  IF store[id] = NoTournament THEN [code |-> 404, store |-> store]
  ELSE IF store[id].status # "paused" THEN [code |-> 400, store |-> store]
  ELSE [code |-> 200, store |-> [store EXCEPT ![id].status = "active"]]

\* delete_tournament: the soft delete.
delete_tournament(store, id) ==
  IF store[id] = NoTournament THEN [code |-> 404, store |-> store]
  ELSE IF store[id].status = "active" THEN [code |-> 400, store |-> store]
  ELSE [code |-> 200, store |-> [store EXCEPT ![id].status = "cancelled"]]

\* The status of a row, Absent when there is no row.
status_of(store, id) ==
  IF store[id] = NoTournament THEN Absent ELSE store[id].status

\* An operation of the API on tournament id was answered with r.
TournamentCall(fn, id, r) ==
  /\ lastAuth = NoCall
  /\ tournaments' = r.store
  /\ lastAuth' = [fn |-> fn, tournament_id |-> id, code |-> r.code,
                  before |-> status_of(tournaments, id),
                  after |-> status_of(r.store, id)]
  /\ UNCHANGED <<now, rateVars, past, blacklist, sessions, sidsUsed, revoked, slog,
                 req, stages, rateCall, calls, resp, metrics, served, down, escaped>>

CreateTournament ==
  \E id \in TournamentIds :
    /\ tournaments[id] = NoTournament
    /\ TournamentCall("create_tournament", id, create_tournament(tournaments, id, "cup"))

UpdateTournament ==
  /\ lastAuth = NoCall
  /\ \E id \in TournamentIds, update \in TournamentUpdates :
       TournamentCall("update_tournament", id, update_tournament(tournaments, id, update))

DeployTournament ==
  /\ lastAuth = NoCall
  /\ \E id \in TournamentIds :
       TournamentCall("deploy_tournament", id, deploy_tournament(tournaments, id))

PauseTournament ==
  /\ lastAuth = NoCall
  /\ \E id \in TournamentIds :
       TournamentCall("pause_tournament", id, pause_tournament(tournaments, id))

ResumeTournament ==
  /\ lastAuth = NoCall
  /\ \E id \in TournamentIds :
       TournamentCall("resume_tournament", id, resume_tournament(tournaments, id))

DeleteTournament ==
  /\ lastAuth = NoCall
  /\ \E id \in TournamentIds :
       TournamentCall("delete_tournament", id, delete_tournament(tournaments, id))

NextTournament ==
  \/ CreateTournament
  \/ UpdateTournament
  \/ DeployTournament
  \/ PauseTournament
  \/ ResumeTournament
  \/ DeleteTournament
  \/ Return

\* Callers that hold the permissions of the routes, one operation at a time.
SpecTournament == InitAuth /\ [][NextTournament]_vars

TournamentOps ==
  {"create_tournament", "update_tournament", "deploy_tournament", "pause_tournament",
   "resume_tournament", "delete_tournament"}

\* C40: whatever operations came before, an operation of the tournament API
\* changes the status of a tournament only along the guarded transitions: a
\* pause that succeeds goes from active to paused, a resume that succeeds from
\* paused to active, delete never cancels an active tournament, an operation
\* answered 400 leaves the status as it was, and no operation takes a
\* tournament out of cancelled or from active straight to cancelled.
C40_GuardedTransitions ==
  (lastAuth # NoCall /\ lastAuth.fn \in TournamentOps) =>
    /\ (lastAuth.fn = "pause_tournament" /\ lastAuth.code = 200) =>
         (lastAuth.before = "active" /\ lastAuth.after = "paused")
    /\ (lastAuth.fn = "resume_tournament" /\ lastAuth.code = 200) =>
         (lastAuth.before = "paused" /\ lastAuth.after = "active")
    /\ lastAuth.code = 400 => lastAuth.after = lastAuth.before
    /\ lastAuth.before = "cancelled" => lastAuth.after = "cancelled"
    /\ ~(lastAuth.before = "active" /\ lastAuth.after = "cancelled")

=============================================================================
